---- MODULE Spec2Model ----
(***************************************************************************)
(* The offline-caching service worker of js13kpwa, in its four revisions:  *)
(* v6, v7 and v9 (src/js13kpwa/sw.js) and v15 (src/js13kpwa/app.js).       *)
(* One worker generation is followed from install to activation and then   *)
(* through the fetch and message events it handles, together with the     *)
(* update banner of the page script (src/js13kpwa/app.js, lines 86-169).   *)
(* Strings that the code inspects                                          *)
(* (URLs) are sequences of one-character strings, so that includes() and   *)
(* the extension regex are computed and not assumed.                       *)
(***************************************************************************)
EXTENDS Integers, Sequences, FiniteSets, TLC

VARIABLES variant, phase, install, activate, caches, orphans, handlers,
          claimed, unhandled, outbox, timer, stats,
          page, pagelog, inbox, msg, sent

vars == <<variant, phase, install, activate, caches, orphans, handlers,
          claimed, unhandled, outbox, timer, stats,
          page, pagelog, inbox, msg, sent>>

\* the page script's state and the message channel from the page to the worker
pageVars == <<page, pagelog, inbox, msg, sent>>

(***************************************************************************)
(* Bounds of the exploration.                                              *)
(***************************************************************************)
\* fetch events dispatched to the worker in one behaviour, each with its
\* own handler invocation
MaxHandlers == 1
\* distinct response bodies the network may deliver
MaxBody == 1
\* buckets left behind by earlier generations when the worker installs
MaxStale == 1
\* additional (non-core) assets, counted from the head of the list, whose
\* caching may fail in one install; the others are cached
MaxAssetFailures == 1
\* messages that pages other than the banner's click handler post to the worker
MaxMessages == 1
\* further clicks on the banner's button that a document takes after the
\* click that requested its reload, before the navigation commits
MaxReclicks == 1

Variants == {"v6", "v7", "v9", "v15"}

(***************************************************************************)
(* Strings.                                                                *)
(***************************************************************************)
\* String.prototype.includes
Includes(s, sub) ==
  \E i \in 1..(Len(s) - Len(sub) + 1) : SubSeq(s, i, i + Len(sub) - 1) = sub

\* a regex of the shape /(...)$/ : the string ends with sub
EndsWith(s, sub) ==
  /\ Len(sub) <= Len(s)
  /\ SubSeq(s, Len(s) - Len(sub) + 1, Len(s)) = sub

Origin == <<"h","t","t","p","s",":","/","/","h">>

\* the directory of the worker script registered at app.js:31
Base == <<"/","p","w","a","-","e","x","a","m","p","l","e","s","/",
          "j","s","1","3","k","p","w","a","/">>

ApiMark == <<"/","a","p","i","/">>

GraphqlMark == <<"/","g","r","a","p","h","q","l">>

\* the alternatives of /\.(svg|css|js|json|woff2?|ttf|eot|wasm|png|jpe?g|gif)$/
StaticExtensions ==
  { <<".","s","v","g">>, <<".","c","s","s">>, <<".","j","s">>,
    <<".","j","s","o","n">>, <<".","w","o","f","f">>,
    <<".","w","o","f","f","2">>, <<".","t","t","f">>, <<".","e","o","t">>,
    <<".","w","a","s","m">>, <<".","p","n","g">>, <<".","j","p","g">>,
    <<".","j","p","e","g">>, <<".","g","i","f">> }

StaticDestinations == {"style", "script", "font", "image"}

(***************************************************************************)
(* The URLs of the exploration.  A URL is named by an identifier; its      *)
(* pathname and query string are the character sequences below.  Distinct  *)
(* identifiers have distinct hrefs, so an identifier is a cache key.       *)
(***************************************************************************)
UrlIds ==
  { "root", "index", "favicon", "appleicon", "pwa192", "pwa512", "manifest",
    "apiitems", "apidata", "apipage", "graphql", "img", "about", "pagequery" }

Pathname(u) ==
  CASE u = "root"      -> Base
    [] u = "index"     -> Base \o <<"i","n","d","e","x",".","h","t","m","l">>
    [] u = "favicon"   -> Base \o <<"f","a","v","i","c","o","n",".","i","c","o">>
    [] u = "appleicon" -> Base \o <<"a","p","p","l","e","-","t","o","u","c","h",
                                    "-","i","c","o","n",".","p","n","g">>
    [] u = "pwa192"    -> Base \o <<"p","w","a","-","1","9","2","x","1","9","2",
                                    ".","p","n","g">>
    [] u = "pwa512"    -> Base \o <<"p","w","a","-","5","1","2","x","5","1","2",
                                    ".","p","n","g">>
    [] u = "manifest"  -> Base \o <<"m","a","n","i","f","e","s","t",".","w","e",
                                    "b","m","a","n","i","f","e","s","t">>
    [] u = "apiitems"  -> <<"/","a","p","i","/","i","t","e","m","s">>
    [] u = "apidata"   -> <<"/","a","p","i","/","d","a","t","a",".","j","s","o","n">>
    [] u = "apipage"   -> Base \o <<"a","p","i","/","p","a","g","e">>
    [] u = "graphql"   -> <<"/","g","r","a","p","h","q","l">>
    [] u = "img"       -> <<"/","d","a","t","a","/","i","m","g","/","a",".","j","p","g">>
    [] u = "about"     -> <<"/","a","b","o","u","t">>
    [] u = "pagequery" -> Base \o <<"p","a","g","e">>

Search(u) ==
  IF u = "pagequery" THEN <<"?","n","e","x","t","=","/","a","p","i","/","x">>
  ELSE <<>>

\* request.url : the serialised URL
Href(u) == Origin \o Pathname(u) \o Search(u)

\* a relative asset name of the worker script, resolved against its directory
Resolve(rel) ==
  CHOOSE u \in UrlIds :
    Href(u) = Origin \o Base \o SubSeq(rel, 3, Len(rel))

(***************************************************************************)
(* Program constants of the four revisions.                                *)
(***************************************************************************)
CACHE_NAMES(v) ==
  CASE v = "v6"  -> [static |-> "static-cache-v6",  dynamic |-> "dynamic-cache-v6"]
    [] v = "v7"  -> [static |-> "static-cache-v7",  dynamic |-> "dynamic-cache-v7"]
    [] v = "v9"  -> [static |-> "static-cache-v9",  dynamic |-> "dynamic-cache-v9"]
    [] v = "v15" -> [static |-> "static-cache-v15", dynamic |-> "dynamic-cache-v8"]

CurrentNames(v) == {CACHE_NAMES(v).static, CACHE_NAMES(v).dynamic}

DotSlash == <<".","/">>

CORE_ASSETS(v) ==
  CASE v \in {"v6", "v7"} ->
         << DotSlash, DotSlash \o <<"i","n","d","e","x",".","h","t","m","l">> >>
    [] v = "v9" ->
         << DotSlash, DotSlash \o <<"i","n","d","e","x",".","h","t","m","l">>,
            DotSlash \o <<"f","a","v","i","c","o","n",".","i","c","o">> >>
    [] v = "v15" ->
         << DotSlash, DotSlash \o <<"f","a","v","i","c","o","n",".","i","c","o">> >>

ADDITIONAL_ASSETS(v) ==
  IF v \in {"v6", "v7"}
  THEN << DotSlash \o <<"f","a","v","i","c","o","n",".","i","c","o">>,
          DotSlash \o <<"a","p","p","l","e","-","t","o","u","c","h","-","i","c",
                        "o","n",".","p","n","g">>,
          DotSlash \o <<"p","w","a","-","1","9","2","x","1","9","2",".","p","n","g">>,
          DotSlash \o <<"p","w","a","-","5","1","2","x","5","1","2",".","p","n","g">>,
          DotSlash \o <<"m","a","n","i","f","e","s","t",".","w","e","b","m","a",
                        "n","i","f","e","s","t">> >>
  ELSE << >>

\* the entry that caches.match('./index.html') looks for
IndexHtml == DotSlash \o <<"i","n","d","e","x",".","h","t","m","l">>

(***************************************************************************)
(* Requests and their classification by the fetch listener.                *)
(***************************************************************************)
Requests ==
  { [method |-> "GET",  mode |-> "navigate", destination |-> "document", url |-> "root"],
    [method |-> "GET",  mode |-> "navigate", destination |-> "document", url |-> "apipage"],
    [method |-> "GET",  mode |-> "navigate", destination |-> "document", url |-> "pagequery"],
    [method |-> "GET",  mode |-> "cors",     destination |-> "",         url |-> "apiitems"],
    [method |-> "GET",  mode |-> "no-cors",  destination |-> "image",    url |-> "apiitems"],
    [method |-> "GET",  mode |-> "cors",     destination |-> "",         url |-> "apidata"],
    [method |-> "GET",  mode |-> "cors",     destination |-> "",         url |-> "graphql"],
    [method |-> "GET",  mode |-> "no-cors",  destination |-> "image",    url |-> "img"],
    [method |-> "GET",  mode |-> "no-cors",  destination |-> "image",    url |-> "favicon"],
    [method |-> "GET",  mode |-> "cors",     destination |-> "",         url |-> "about"],
    [method |-> "POST", mode |-> "cors",     destination |-> "",         url |-> "apiitems"] }

NoRequest == [method |-> "", mode |-> "", destination |-> "", url |-> ""]

\* the URLs whose pathname ends with one of the static extensions
StaticPaths ==
  {u \in UrlIds : \E ext \in StaticExtensions : EndsWith(Pathname(u), ext)}

\* the URLs whose pathname includes '/api/' or '/graphql'
ApiPaths ==
  {u \in UrlIds : \/ Includes(Pathname(u), ApiMark)
                  \/ Includes(Pathname(u), GraphqlMark)}

\* the URLs that include '/api/' or '/graphql' anywhere
ApiUrls ==
  {u \in UrlIds : \/ Includes(Href(u), ApiMark)
                  \/ Includes(Href(u), GraphqlMark)}

\* isStaticAsset of the fetch listener
isStaticAsset(request) ==
  \/ request.destination \in StaticDestinations
  \/ request.url \in StaticPaths

\* url.pathname.includes('/api/') || url.pathname.includes('/graphql')
isApiPath(request) == request.url \in ApiPaths

\* request.url.includes('/api/') || request.url.includes('/graphql')
isApiUrl(request) == request.url \in ApiUrls

\* a navigation branch that calls networkFirst in every revision
NavigationStrategy_NetworkFirst(v) == "networkFirst"

\* the strategy the navigation branch of revision v hands the request to
NavigationStrategy(v) == IF v = "v15" THEN "staleWhileRevalidate" ELSE "networkFirst"

\* the dispatch whose last rule writes to the static bucket
Route_DefaultStatic(v, request) ==
  IF request.method # "GET"
    THEN [strategy |-> "none", bucket |-> ""]
  ELSE IF request.mode = "navigate"
    THEN [strategy |-> NavigationStrategy(v), bucket |-> CACHE_NAMES(v).static]
  ELSE IF isStaticAsset(request)
    THEN [strategy |-> "staleWhileRevalidate", bucket |-> CACHE_NAMES(v).static]
  ELSE IF isApiPath(request)
    THEN [strategy |-> "networkFirst", bucket |-> CACHE_NAMES(v).dynamic]
  ELSE [strategy |-> "staleWhileRevalidate", bucket |-> CACHE_NAMES(v).static]

\* the dispatch with the API rule tried before the static-asset rule
Route_ApiFirst(v, request) ==
  IF request.method # "GET"
    THEN [strategy |-> "none", bucket |-> ""]
  ELSE IF request.mode = "navigate"
    THEN [strategy |-> NavigationStrategy(v), bucket |-> CACHE_NAMES(v).static]
  ELSE IF isApiPath(request)
    THEN [strategy |-> "networkFirst", bucket |-> CACHE_NAMES(v).dynamic]
  ELSE IF isStaticAsset(request)
    THEN [strategy |-> "staleWhileRevalidate", bucket |-> CACHE_NAMES(v).static]
  ELSE [strategy |-> "staleWhileRevalidate", bucket |-> CACHE_NAMES(v).dynamic]

\* the dispatch without the early return for methods other than GET
Route_AnyMethod(v, request) ==
  IF request.mode = "navigate"
    THEN [strategy |-> NavigationStrategy(v), bucket |-> CACHE_NAMES(v).static]
  ELSE IF isStaticAsset(request)
    THEN [strategy |-> "staleWhileRevalidate", bucket |-> CACHE_NAMES(v).static]
  ELSE IF isApiPath(request)
    THEN [strategy |-> "networkFirst", bucket |-> CACHE_NAMES(v).dynamic]
  ELSE [strategy |-> "staleWhileRevalidate", bucket |-> CACHE_NAMES(v).dynamic]

\* the fetch listener's dispatch: the strategy and the bucket of the single
\* respondWith call it makes, or strategy "none" when it returns without one
Route(v, request) ==
  IF request.method # "GET"
    THEN [strategy |-> "none", bucket |-> ""]
  ELSE IF request.mode = "navigate"
    THEN [strategy |-> NavigationStrategy(v), bucket |-> CACHE_NAMES(v).static]
  ELSE IF isStaticAsset(request)
    THEN [strategy |-> "staleWhileRevalidate", bucket |-> CACHE_NAMES(v).static]
  ELSE IF isApiPath(request)
    THEN [strategy |-> "networkFirst", bucket |-> CACHE_NAMES(v).dynamic]
  ELSE [strategy |-> "staleWhileRevalidate", bucket |-> CACHE_NAMES(v).dynamic]

(***************************************************************************)
(* Responses.                                                              *)
(***************************************************************************)
\* bodies the origin server may deliver to a fetch event's request; "v0" is
\* what earlier generations stored and "v1" what it delivers during install
BodyOf == <<"v2", "v3", "v4", "v5">>

NetBodies == {BodyOf[i] : i \in 1..MaxBody}

OfflineJson == "{\"offline\":true,\"message\":\"Offline: data unavailable.\"}"

OfflineText == "Resource unavailable offline"

NoResponse == [kind |-> "none", status |-> 0, ctype |-> "", body |-> ""]

\* what a lookup that finds nothing resolves to
Undefined == [kind |-> "undefined", status |-> 0, ctype |-> "", body |-> ""]

\* the strategy's promise rejected with the fetch error
Rejected == [kind |-> "error", status |-> 0, ctype |-> "", body |-> ""]

NetworkResponse(status, body) ==
  [kind |-> "network", status |-> status, ctype |-> "origin", body |-> body]

\* Response.ok
Ok(response) == response.status \in 200..299

\* new Response(JSON.stringify({offline: true, message: ...}), {headers: ...})
OfflineApiResponse ==
  [kind |-> "synth", status |-> 200, ctype |-> "application/json", body |-> OfflineJson]

\* new Response('Resource unavailable offline', {status: 200, headers: ...})
OfflineTextResponse ==
  [kind |-> "synth", status |-> 200, ctype |-> "text/plain", body |-> OfflineText]

\* Response.clone(), as stored by cache.put
Clone(response) ==
  [status |-> response.status, ctype |-> response.ctype, body |-> response.body]

\* a stored entry as a lookup returns it
FromCache(entry) ==
  [kind |-> "cache", status |-> entry.status, ctype |-> entry.ctype, body |-> entry.body]

(***************************************************************************)
(* Cache storage: the buckets in creation order, each a map from the URL   *)
(* of a GET request to the stored response.                                *)
(***************************************************************************)
NoEntries == [u \in {} |-> Clone(NoResponse)]

BucketNames(cs) == {cs[i].name : i \in 1..Len(cs)}

HasBucket(cs, name) == name \in BucketNames(cs)

Entries(cs, name) ==
  IF HasBucket(cs, name)
  THEN (cs[CHOOSE i \in 1..Len(cs) : cs[i].name = name]).entries
  ELSE NoEntries

\* caches.open(name): the bucket is created, last in order, when absent
cachesOpen(cs, name) ==
  IF HasBucket(cs, name) THEN cs
  ELSE Append(cs, [name |-> name, entries |-> NoEntries])

\* cache.put(request, response) on a Cache object with the given entries: the
\* entry of the key is replaced
cachePut(entries, key, response) ==
  [u \in DOMAIN entries \cup {key} |->
     IF u = key THEN Clone(response) ELSE entries[u]]

\* cache.match(request) on a Cache object with the given entries
cacheMatch(entries, key) ==
  IF key \in DOMAIN entries THEN FromCache(entries[key]) ELSE Undefined

\* (await caches.open(name)).match(request): the lookup of a call that opens
\* the bucket now
BucketMatch(cs, name, key) == cacheMatch(Entries(cs, name), key)

\* the storage with the entries of the bucket replaced
Stored(cs, name, entries) ==
  [i \in 1..Len(cs) |->
     IF cs[i].name = name THEN [name |-> name, entries |-> entries] ELSE cs[i]]

\* caches.match(request): the first bucket, in creation order, with an entry
cachesMatch(cs, key) ==
  IF \E i \in 1..Len(cs) : key \in DOMAIN cs[i].entries
  THEN LET i == CHOOSE j \in 1..Len(cs) :
                  /\ key \in DOMAIN cs[j].entries
                  /\ \A k \in 1..(j - 1) : key \notin DOMAIN cs[k].entries
       IN FromCache(cs[i].entries[key])
  ELSE Undefined

RECURSIVE SeqWithout(_, _)
SeqWithout(cs, name) ==
  IF cs = << >> THEN << >>
  ELSE IF Head(cs).name = name THEN SeqWithout(Tail(cs), name)
  ELSE <<Head(cs)>> \o SeqWithout(Tail(cs), name)

\* caches.delete(name)
cachesDelete(cs, name) == SeqWithout(cs, name)

\* cache.addAll(assets): every asset fetched ok and then all stored at once
RECURSIVE cacheAddAll(_, _, _)
cacheAddAll(entries, assets, body) ==
  IF assets = << >> THEN entries
  ELSE cacheAddAll(cachePut(entries, Resolve(Head(assets)), NetworkResponse(200, body)),
                   Tail(assets), body)

(***************************************************************************)
(* Cache objects.  caches.open(name) resolves with an object bound to the   *)
(* bucket that carries the name at that moment.  caches.delete(name) takes *)
(* the bucket out of the storage; an object opened before keeps its        *)
(* entries and keeps taking reads and writes, which the storage and the    *)
(* bucket created next under the name do not see.  An object is named by   *)
(* the bucket name and the number of objects of that name that were        *)
(* deleted while held, before it was created.                              *)
(***************************************************************************)
NoCache == [name |-> "", gen |-> 0]

NoOrphans == [c \in {} |-> NoEntries]

Gen(orph, name) == Cardinality({c \in DOMAIN orph : c.name = name})

\* the object caches.open(name) resolves with, the bucket being in the storage
cacheOf(orph, name) == [name |-> name, gen |-> Gen(orph, name)]

\* the entries of the Cache object c
Object(cs, orph, c) ==
  IF c \in DOMAIN orph THEN orph[c] ELSE Entries(cs, c.name)

(***************************************************************************)
(* Buckets that earlier generations of the worker left behind.             *)
(***************************************************************************)
StaleNames == <<"dynamic-cache-v5", "static-cache-v5", "dynamic-cache-v4", "static-cache-v4">>

StaleEntry == [status |-> 200, ctype |-> "origin", body |-> "v0"]

StaleBucket(name) ==
  [name |-> name,
   entries |-> IF name \in {"static-cache-v5", "static-cache-v4"}
               THEN [u \in {"root", "index"} |-> StaleEntry]
               ELSE [u \in {"apiitems"} |-> StaleEntry]]

(***************************************************************************)
(* State.                                                                  *)
(*   variant   the revision of the worker script that is running           *)
(*   phase     the worker's lifecycle state                                *)
(*   install   progress of the promise given to the install event          *)
(*   activate  progress of the activate handler's work                     *)
(*   caches    the cache storage                                           *)
(*   orphans   the entries of the Cache objects whose bucket was deleted   *)
(*             while a strategy call held them                             *)
(*   handlers  one record per fetch event: the listener's dispatch and the *)
(*             position and locals of the strategy it called               *)
(*   claimed   clients.claim() has completed: the page is controlled       *)
(*   unhandled strategies that left a rejected promise without a handler   *)
(*   outbox    types of the messages posted to the controlled pages        *)
(*   timer     the setTimeout of the v15 activate handler and the run of   *)
(*             checkForUpdates that it starts                              *)
(*   stats     firstFetchHandled and self._requestStats of v9              *)
(*   page      the open page: the banner's display and class, the timer    *)
(*             of its transition, how far it has read the outbox, the      *)
(*             clicks that have called reload() on this document, and      *)
(*             whether a document is there (live) or being loaded          *)
(*   pagelog   what the page has done to the outside, in order             *)
(*   inbox     messages posted to the worker and not yet dispatched        *)
(*   sent      number of messages posted by ClientPost                     *)
(*   msg       the data of the message event dispatched last since the     *)
(*             worker started, and the purges of the message listener      *)
(*             that are pending, in the order in which they were started   *)
(***************************************************************************)
Slots == 1..MaxHandlers

IdleHandler ==
  [pc |-> "idle", request |-> NoRequest, strategy |-> "none", bucket |-> "",
   cache |-> NoCache, responded |-> FALSE, net |-> "none", netResp |-> NoResponse,
   cached |-> NoResponse, ownHit |-> FALSE, put |-> "none", result |-> NoResponse]

\* cache: the object that caches.open resolved with; todo: additional assets
\* whose fetch is pending; putting: those whose cache.put is pending
IdleInstall ==
  [pc |-> "idle", cache |-> NoCache, core |-> "pending", todo |-> {}, putting |-> {},
   stored |-> {}, failures |-> 0, skipWaiting |-> FALSE]

\* notify, ready: the clients.matchAll() calls of v9 that nothing awaits;
\* claim: clients.claim() called and not yet completed
IdleActivate ==
  [pc |-> "idle", todo |-> {}, notify |-> "none", ready |-> "none",
   claim |-> "none", failed |-> FALSE]

\* the document as DOMContentLoaded leaves it, having missed the first n
\* messages of the outbox
LoadedPage(n) ==
  [doc |-> "live", display |-> "none", visible |-> FALSE, timeout |-> FALSE,
   clicks |-> 0, loaded |-> n, read |-> n]

\* data is event.data of the message event dispatched last; purges holds one
\* record per run of the CLEAR_UPDATES branch that has not finished
IdleMsg == [data |-> [type |-> ""], purges |-> << >>]

\* the CLEAR_UPDATES branch suspended at `await caches.keys()`
NewPurge == [pc |-> "keys", todo |-> {}]

NoStats == [firstFetchHandled |-> FALSE, requestStats |-> [d \in {} |-> 0]]

\* the body the origin serves for every asset while the worker installs
InstallBody == "v1"

\* the strategy calls that are suspended at the position
At(pc) == {h \in DOMAIN handlers : handlers[h].pc = pc}

\* a write through the Cache object c leaves it with the entries
ObjectWrite(c, entries) ==
  IF c \in DOMAIN orphans
  THEN /\ orphans' = [orphans EXCEPT ![c] = entries]
       /\ caches' = caches
  ELSE /\ caches' = Stored(caches, c.name, entries)
       /\ orphans' = orphans

\* the strategy call of the record holds the Cache object c and has an
\* operation on it to come
Holds(hr, c) ==
  /\ hr.cache = c
  /\ hr.pc \in {"swr_match", "swr_bg", "swr_wait", "nf_put", "bg_put"}

\* caches.delete(name) completes: the bucket leaves the storage, and the
\* object lives on in the calls that hold it
BucketDeleted(name) ==
  /\ caches' = cachesDelete(caches, name)
  /\ orphans' = IF /\ HasBucket(caches, name)
                   /\ \E h \in DOMAIN handlers : Holds(handlers[h], cacheOf(orphans, name))
                THEN orphans @@ (cacheOf(orphans, name) :> Entries(caches, name))
                ELSE orphans

Init ==
  /\ variant \in Variants
  /\ phase = "parsed"
  /\ install = IdleInstall
  /\ activate = IdleActivate
  /\ \E k \in 0..MaxStale : caches = [i \in 1..k |-> StaleBucket(StaleNames[i])]
  /\ orphans = NoOrphans
  /\ handlers = [h \in Slots |-> IdleHandler]
  /\ claimed = FALSE
  /\ unhandled = {}
  /\ outbox = << >>
  /\ timer = "none"
  /\ stats = NoStats
  /\ page = LoadedPage(0)
  /\ pagelog = << >>
  /\ inbox = << >>
  /\ sent = 0
  /\ msg = IdleMsg

(***************************************************************************)
(* Install.                                                                *)
(***************************************************************************)
\* the install listener: waitUntil(...) is registered and skipWaiting() called
InstallStart ==
  /\ phase = "parsed"
  /\ phase' = "installing"
  /\ install' = [install EXCEPT !.pc = "open", !.skipWaiting = TRUE]
  /\ UNCHANGED <<pageVars, variant, activate, caches, orphans, handlers, claimed, unhandled,
                 outbox, timer, stats>>

\* caches.open(CACHE_NAMES.static)
InstallOpen ==
  /\ install.pc = "open"
  /\ caches' = cachesOpen(caches, CACHE_NAMES(variant).static)
  /\ install' = [install EXCEPT !.pc = "core",
                                !.cache = cacheOf(orphans, CACHE_NAMES(variant).static)]
  /\ UNCHANGED <<pageVars, variant, phase, activate, orphans, handlers, claimed, unhandled,
                 outbox, timer, stats>>

\* what the install promise does when cache.addAll(CORE_ASSETS) rejects: v6
\* ends in .catch(log), so the promise resolves; the others re-throw
CoreFailure(v) == IF v = "v6" THEN "resolved" ELSE "rejected"

\* whether the install of revision v lists the bucket after cache.addAll:
\* const keys = await cache.keys() in v9 and v15
InstallListsKeys(v) == v \in {"v9", "v15"}

\* await cache.addAll(CORE_ASSETS), and what follows up to the next await:
\* v6 starts the fetch of every additional asset, v7 the first, v9 and v15
\* call cache.keys()
InstallCore(ok) ==
  /\ install.pc = "core"
  /\ IF ok
     THEN /\ ObjectWrite(install.cache,
                         cacheAddAll(Object(caches, orphans, install.cache),
                                     CORE_ASSETS(variant), InstallBody))
          /\ install' = [install EXCEPT
                           !.core = "ok",
                           !.pc = IF InstallListsKeys(variant) THEN "keys"
                                  ELSE IF ADDITIONAL_ASSETS(variant) = << >>
                                  THEN "resolved" ELSE "additional",
                           !.todo = DOMAIN ADDITIONAL_ASSETS(variant)]
     ELSE /\ UNCHANGED <<caches, orphans>>
          /\ install' = [install EXCEPT !.core = "failed",
                                        !.pc = CoreFailure(variant)]
  /\ UNCHANGED <<pageVars, variant, phase, activate, handlers, claimed, unhandled,
                 outbox, timer, stats>>

\* v9, v15: await cache.keys() settles; a rejection is re-thrown by both
\* catch blocks and rejects the promise given to waitUntil
InstallKeys(ok) ==
  /\ install.pc = "keys"
  /\ install' = [install EXCEPT !.pc = IF ok THEN "resolved" ELSE "rejected"]
  /\ UNCHANGED <<pageVars, variant, phase, activate, caches, orphans, handlers, claimed,
                 unhandled, outbox, timer, stats>>

\* how fetch(asset) of an additional asset settles
AssetOutcomes == {"ok", "nonok", "fetchfailed"}

\* an install whose promise rejects with the failure of an additional asset
AssetFailure_Propagates(v) == "rejected"

\* what the failure of one additional asset does to the install promise: the
\* .catch of the asset's chain (v6) or the try/catch of the loop body (v7)
\* logs it and the install goes on
AssetFailure(v) == "caught"

\* the install promise once the asset i is done with: the last one resolves
\* it (Promise.all in v6, the end of the loop in v7)
AssetDone(i, failed) ==
  IF failed /\ AssetFailure(variant) = "rejected" THEN "rejected"
  ELSE IF install.todo \cup install.putting = {i} THEN "resolved"
  ELSE install.pc

\* fetch(asset) of one additional asset settles: cache.put(asset, response)
\* is called when the response is ok, a response that is not ok is logged and
\* a rejection is caught.  v6 has started all the fetches at once, v7 takes
\* the assets in the order of the list, each after the put of the one before.
InstallAsset(i, outcome) ==
  /\ install.pc = "additional"
  /\ i \in install.todo
  /\ variant = "v7" => (install.putting = {} /\ \A j \in install.todo : i <= j)
  /\ outcome # "ok" => i <= MaxAssetFailures
  /\ install' = [install EXCEPT
                   !.todo = @ \ {i},
                   !.putting = IF outcome = "ok" THEN @ \cup {i} ELSE @,
                   !.failures = IF outcome = "ok" THEN @ ELSE @ + 1,
                   !.pc = IF outcome = "ok" THEN @ ELSE AssetDone(i, TRUE)]
  /\ UNCHANGED <<pageVars, variant, phase, activate, caches, orphans, handlers, claimed,
                 unhandled, outbox, timer, stats>>

\* cache.put(asset, response) of one additional asset settles; a rejection
\* is caught like a failed fetch
InstallAssetPut(i, ok) ==
  /\ install.pc = "additional"
  /\ i \in install.putting
  /\ ~ok => i <= MaxAssetFailures
  /\ IF ok
     THEN ObjectWrite(install.cache,
                      cachePut(Object(caches, orphans, install.cache),
                               Resolve(ADDITIONAL_ASSETS(variant)[i]),
                               NetworkResponse(200, InstallBody)))
     ELSE UNCHANGED <<caches, orphans>>
  /\ install' = [install EXCEPT
                   !.putting = @ \ {i},
                   !.stored = IF ok THEN @ \cup {i} ELSE @,
                   !.failures = IF ok THEN @ ELSE @ + 1,
                   !.pc = AssetDone(i, ~ok)]
  /\ UNCHANGED <<pageVars, variant, phase, activate, handlers, claimed, unhandled,
                 outbox, timer, stats>>

\* the promise given to waitUntil has settled: the worker is installed when it
\* resolved and discarded when it rejected
InstallSettled ==
  /\ phase = "installing"
  /\ install.pc \in {"resolved", "rejected"}
  /\ phase' = IF install.pc = "resolved" THEN "installed" ELSE "redundant"
  /\ UNCHANGED <<pageVars, variant, install, activate, caches, orphans, handlers, claimed,
                 unhandled, outbox, timer, stats>>

(***************************************************************************)
(* Activate.                                                               *)
(***************************************************************************)
\* the activate listener up to its first suspension: v15 calls
\* self.clients.claim() without awaiting it and sets the timer, and gives
\* nothing to waitUntil; the others call caches.keys(), v9 after a
\* clients.matchAll() that nothing awaits
ActivateStart ==
  /\ phase = "installed"
  /\ install.skipWaiting
  /\ phase' = "activating"
  /\ IF variant = "v15"
     THEN /\ timer' = "armed"
          /\ activate' = [activate EXCEPT !.pc = "resolved", !.claim = "pending"]
     ELSE /\ timer' = timer
          /\ activate' = [activate EXCEPT
                            !.pc = "keys",
                            !.notify = IF variant = "v9" THEN "pending" ELSE @]
  /\ UNCHANGED <<pageVars, variant, install, caches, orphans, handlers, claimed, unhandled,
                 outbox, stats>>

\* v15: the clients.claim() that the activate listener called completes and
\* the page is controlled by the worker
ClaimCompletes ==
  /\ variant = "v15"
  /\ activate.claim = "pending"
  /\ activate' = [activate EXCEPT !.claim = "done"]
  /\ claimed' = TRUE
  /\ UNCHANGED <<pageVars, variant, phase, install, caches, orphans, handlers, unhandled,
                 outbox, timer, stats>>

\* v9: clients.matchAll().then(clients => each postMessage SW_ACTIVATED);
\* matchAll yields the pages this worker controls
ActivateNotify ==
  /\ activate.notify = "pending"
  /\ activate' = [activate EXCEPT !.notify = "done"]
  /\ outbox' = IF claimed THEN Append(outbox, "SW_ACTIVATED") ELSE outbox
  /\ UNCHANGED <<pageVars, variant, phase, install, caches, orphans, handlers, claimed,
                 unhandled, timer, stats>>

\* keys.filter(key => !Object.values(CACHE_NAMES).includes(key))
OldKeys(v, cs) == BucketNames(cs) \ CurrentNames(v)

\* caches.keys() and the start of every caches.delete(oldKey); a rejection
\* of caches.keys() rejects the promise given to waitUntil (v9 logs it first)
ActivateKeys(ok) ==
  /\ activate.pc = "keys"
  /\ activate' = IF ok
                 THEN [activate EXCEPT !.pc = "delete",
                                       !.todo = OldKeys(variant, caches)]
                 ELSE [activate EXCEPT !.pc = "rejected", !.failed = TRUE]
  /\ UNCHANGED <<pageVars, variant, phase, install, caches, orphans, handlers, claimed,
                 unhandled, outbox, timer, stats>>

\* one caches.delete(oldKey) settles.  The deletions were all started
\* together; the first rejection rejects Promise.all and with it the promise
\* given to waitUntil (v9 logs and re-throws), the others still run
ActivateDelete(key, ok) ==
  /\ activate.pc \in {"delete", "rejected"}
  /\ key \in activate.todo
  /\ IF ok THEN BucketDeleted(key) ELSE UNCHANGED <<caches, orphans>>
  /\ activate' = [activate EXCEPT
                    !.todo = @ \ {key},
                    !.failed = IF ok THEN @ ELSE TRUE,
                    !.pc = IF ok THEN @ ELSE "rejected"]
  /\ UNCHANGED <<pageVars, variant, phase, install, handlers, claimed, unhandled,
                 outbox, timer, stats>>

\* whether the activate handler of revision v looks into the static bucket
\* before it claims: caches.open(CACHE_NAMES.static) and staticCache.keys()
ActivateListsStatic(v) == v = "v9"

\* v9, after Promise.all of the deletions: await caches.open(CACHE_NAMES.static)
ActivateOpen ==
  /\ ActivateListsStatic(variant)
  /\ activate.pc = "delete"
  /\ activate.todo = {}
  /\ caches' = cachesOpen(caches, CACHE_NAMES(variant).static)
  /\ orphans' = orphans
  /\ activate' = [activate EXCEPT !.pc = "list"]
  /\ UNCHANGED <<pageVars, variant, phase, install, handlers, claimed, unhandled,
                 outbox, timer, stats>>

\* v9: await staticCache.keys() settles; then self.clients.claim() is
\* called, or the rejection is logged and re-thrown
ActivateList(ok) ==
  /\ activate.pc = "list"
  /\ activate' = IF ok THEN [activate EXCEPT !.pc = "claim"]
                 ELSE [activate EXCEPT !.pc = "rejected", !.failed = TRUE]
  /\ UNCHANGED <<pageVars, variant, phase, install, caches, orphans, handlers, claimed,
                 unhandled, outbox, timer, stats>>

\* self.clients.claim(), called after Promise.all of the deletions (v6, v7)
\* or after the listing (v9), completes and the promise given to waitUntil
\* resolves; v9 has then called the clients.matchAll() of SW_READY, which
\* nothing awaits
ActivateClaim ==
  /\ IF ActivateListsStatic(variant) THEN activate.pc = "claim"
     ELSE activate.pc = "delete" /\ activate.todo = {}
  /\ claimed' = TRUE
  /\ activate' = [activate EXCEPT
                    !.pc = "resolved",
                    !.ready = IF variant = "v9" THEN "pending" ELSE @]
  /\ UNCHANGED <<pageVars, variant, phase, install, caches, orphans, handlers, unhandled,
                 outbox, timer, stats>>

\* v9: self.clients.matchAll().then(clients => each postMessage SW_READY)
ActivateReady ==
  /\ activate.ready = "pending"
  /\ activate' = [activate EXCEPT !.ready = "done"]
  /\ outbox' = IF claimed THEN Append(outbox, "SW_READY") ELSE outbox
  /\ UNCHANGED <<pageVars, variant, phase, install, caches, orphans, handlers, claimed,
                 unhandled, timer, stats>>

\* the promise given to waitUntil has settled and the activate event has
\* finished: the worker is active, also after a rejection, and gets fetch
\* events
Activated ==
  /\ phase = "activating"
  /\ activate.pc \in {"resolved", "rejected"}
  /\ phase' = "activated"
  /\ UNCHANGED <<pageVars, variant, install, activate, caches, orphans, handlers, claimed,
                 unhandled, outbox, timer, stats>>

\* v15: the timer set by the activate listener fires, 5 s after the activate
\* event, which has long finished: checkForUpdates is called and suspended at
\* await self.clients.matchAll()
TimerFires ==
  /\ phase = "activated"
  /\ timer = "armed"
  /\ timer' = "fired"
  /\ UNCHANGED <<pageVars, variant, phase, install, activate, caches, orphans, handlers,
                 claimed, unhandled, outbox, stats>>

\* a checkForUpdates that sets the timer again when it has run
checkForUpdates_Interval ==
  /\ timer = "fired"
  /\ timer' = "armed"
  /\ outbox' = IF claimed THEN Append(outbox, "UPDATE_AVAILABLE") ELSE outbox
  /\ UNCHANGED <<pageVars, variant, phase, install, activate, caches, orphans, handlers,
                 claimed, unhandled, stats>>

\* v15: clients.matchAll() of checkForUpdates resolves with the pages the
\* worker controls, and UPDATE_AVAILABLE is posted to each
checkForUpdates ==
  /\ timer = "fired"
  /\ timer' = "done"
  /\ outbox' = IF claimed THEN Append(outbox, "UPDATE_AVAILABLE") ELSE outbox
  /\ UNCHANGED <<pageVars, variant, phase, install, activate, caches, orphans, handlers,
                 claimed, unhandled, stats>>

(***************************************************************************)
(* The fetch listener.                                                     *)
(***************************************************************************)
\* v9 only: the firstFetchHandled flag of the main listener and the counter
\* of the second, passive listener, keyed by destination || 'unknown'
Recorded(v, st, request) ==
  IF v # "v9" THEN st
  ELSE LET d == IF request.destination = "" THEN "unknown" ELSE request.destination
           rs == st.requestStats
       IN [firstFetchHandled |-> TRUE,
           requestStats |-> [k \in DOMAIN rs \cup {d} |->
                               IF k \in DOMAIN rs
                               THEN (IF k = d THEN rs[k] + 1 ELSE rs[k])
                               ELSE 1]]

\* a fetch event: the listener either returns at once (no respondWith) or
\* calls respondWith(strategy(request, bucket)), which runs the strategy up
\* to its first await
FetchEvent(h, request) ==
  /\ phase = "activated"
  /\ handlers[h].pc = "idle"
  /\ \A j \in 1..(h - 1) : handlers[j].pc # "idle"
  /\ LET r == Route(variant, request)
     IN handlers' = [handlers EXCEPT ![h] =
          [IdleHandler EXCEPT
             !.request = request,
             !.strategy = r.strategy,
             !.bucket = r.bucket,
             !.responded = (r.strategy # "none"),
             !.net = IF r.strategy = "networkFirst" THEN "pending" ELSE "none",
             !.pc = CASE r.strategy = "none" -> "passthrough"
                      [] r.strategy = "networkFirst" -> "nf_fetch"
                      [] r.strategy = "staleWhileRevalidate" -> "swr_open"]]
  /\ stats' = Recorded(variant, stats, request)
  /\ UNCHANGED <<pageVars, variant, phase, install, activate, caches, orphans, claimed,
                 unhandled, outbox, timer>>

\* how a fetch() may settle: resolved with an ok response carrying one of the
\* bodies, resolved with a response that is not ok, or rejected
NetOutcomes == NetBodies \cup {"nonok", "failed"}

Settled(outcome) ==
  CASE outcome = "failed" -> [net |-> "failed", resp |-> NoResponse]
    [] outcome = "nonok"  -> [net |-> "nonok", resp |-> NetworkResponse(404, "")]
    [] OTHER              -> [net |-> "ok", resp |-> NetworkResponse(200, outcome)]

(***************************************************************************)
(* networkFirst(request, cacheName).                                       *)
(***************************************************************************)
\* a networkFirst that, once its fetch has failed, waits for a promise that
\* nothing settles
NFAfterFetch_Hang(net) ==
  CASE net = "ok"     -> "nf_open"
    [] net = "nonok"  -> "done"
    [] net = "failed" -> "nf_never"

\* where networkFirst continues once `await fetch(request)` has settled
NFAfterFetch(net) ==
  CASE net = "ok"     -> "nf_open"
    [] net = "nonok"  -> "done"
    [] net = "failed" -> "nf_match"

\* const networkResponse = await fetch(request)
NFSettle(h, outcome) ==
  /\ handlers[h].pc = "nf_fetch"
  /\ LET s == Settled(outcome)
     IN handlers' = [handlers EXCEPT ![h] =
          [@ EXCEPT !.net = s.net,
                    !.netResp = s.resp,
                    !.pc = NFAfterFetch(s.net),
                    !.result = IF NFAfterFetch(s.net) = "done" THEN s.resp ELSE @]]
  /\ UNCHANGED <<pageVars, variant, phase, install, activate, caches, orphans, claimed,
                 unhandled, outbox, timer, stats>>

\* a key that carries a stamp of the call that writes it
PutKey_Stamped(h) == IF h = 1 THEN handlers[h].request.url ELSE "stamped"

\* cache.put(request, ...): the strategy call keys the entry by its request
PutKey(h) == handlers[h].request.url

\* whether networkFirst of revision v awaits its cache.put inside the try
NFAwaitsPut(v) == v # "v6"

\* const cache = await caches.open(cacheName); cache.put is then called:
\* v7, v9 and v15 await it, v6 returns the network response without waiting
NFOpen(h) ==
  /\ handlers[h].pc = "nf_open"
  /\ caches' = cachesOpen(caches, handlers[h].bucket)
  /\ orphans' = orphans
  /\ handlers' = [handlers EXCEPT ![h] =
       IF NFAwaitsPut(variant)
       THEN [@ EXCEPT !.cache = cacheOf(orphans, handlers[h].bucket),
                      !.pc = "nf_put", !.put = "pending"]
       ELSE [@ EXCEPT !.cache = cacheOf(orphans, handlers[h].bucket),
                      !.pc = "bg_put", !.put = "pending", !.result = handlers[h].netResp]]
  /\ UNCHANGED <<pageVars, variant, phase, install, activate, claimed, unhandled,
                 outbox, timer, stats>>

\* await cache.put(request, networkResponse.clone()); return networkResponse.
\* (v7, v9, v15) A rejection of the awaited put is thrown inside the try, so
\* the catch block runs.
NFPut(h, ok) ==
  /\ handlers[h].pc = "nf_put"
  /\ IF ok
     THEN /\ ObjectWrite(handlers[h].cache,
                         cachePut(Object(caches, orphans, handlers[h].cache),
                                  PutKey(h), handlers[h].netResp))
          /\ handlers' = [handlers EXCEPT ![h] =
               [@ EXCEPT !.put = "stored", !.result = handlers[h].netResp, !.pc = "done"]]
     ELSE /\ UNCHANGED <<caches, orphans>>
          /\ handlers' = [handlers EXCEPT ![h] =
               [@ EXCEPT !.put = "failed", !.pc = "nf_match"]]
  /\ UNCHANGED <<pageVars, variant, phase, install, activate, claimed, unhandled,
                 outbox, timer, stats>>

\* const cached = await caches.match(request) in the catch block
NFLookup(cs, request, cacheName) == cachesMatch(cs, request.url)

\* the catch block with the navigation fallback tried before the API one
NFFallback_NavigateFirst(request, cached) ==
  IF cached # Undefined THEN [pc |-> "done", result |-> cached]
  ELSE IF request.mode = "navigate" THEN [pc |-> "nf_index", result |-> NoResponse]
  ELSE IF isApiUrl(request) THEN [pc |-> "done", result |-> OfflineApiResponse]
  ELSE [pc |-> "done", result |-> OfflineTextResponse]

\* the catch block after its lookup: the cached response, else the offline
\* JSON for an API URL, else (for a navigation) the lookup of ./index.html,
\* else the offline text
NFFallback(request, cached) ==
  IF cached # Undefined THEN [pc |-> "done", result |-> cached]
  ELSE IF isApiUrl(request) THEN [pc |-> "done", result |-> OfflineApiResponse]
  ELSE IF request.mode = "navigate" THEN [pc |-> "nf_index", result |-> NoResponse]
  ELSE [pc |-> "done", result |-> OfflineTextResponse]

NFMatch(h) ==
  /\ handlers[h].pc = "nf_match"
  /\ LET c == NFLookup(caches, handlers[h].request, handlers[h].bucket)
         f == NFFallback(handlers[h].request, c)
     IN handlers' = [handlers EXCEPT ![h] =
          [@ EXCEPT !.cached = c,
                    !.ownHit = (handlers[h].request.url \in DOMAIN Entries(caches, handlers[h].bucket)),
                    !.pc = f.pc,
                    !.result = f.result]]
  /\ UNCHANGED <<pageVars, variant, phase, install, activate, caches, orphans, claimed,
                 unhandled, outbox, timer, stats>>

\* return caches.match('./index.html'): the entry, or undefined without one
NFIndexResult(cs) == cachesMatch(cs, Resolve(IndexHtml))

NFIndex(h) ==
  /\ handlers[h].pc = "nf_index"
  /\ handlers' = [handlers EXCEPT ![h] =
       [@ EXCEPT !.result = NFIndexResult(caches), !.pc = "done"]]
  /\ UNCHANGED <<pageVars, variant, phase, install, activate, caches, orphans, claimed,
                 unhandled, outbox, timer, stats>>

(***************************************************************************)
(* staleWhileRevalidate(request, cacheName).                               *)
(***************************************************************************)
\* v15 calls cache.match(request) and fetch(request) together and then awaits
\* the lookup; v6, v7 and v9 await the lookup and call fetch afterwards
SWRFetchesWithLookup(v) == v = "v15"

\* const cache = await caches.open(cacheName)
SWROpen(h) ==
  /\ handlers[h].pc = "swr_open"
  /\ caches' = cachesOpen(caches, handlers[h].bucket)
  /\ orphans' = orphans
  /\ handlers' = [handlers EXCEPT ![h] =
       [@ EXCEPT !.cache = cacheOf(orphans, handlers[h].bucket),
                 !.pc = "swr_match",
                 !.net = IF SWRFetchesWithLookup(variant) THEN "pending" ELSE @]]
  /\ UNCHANGED <<pageVars, variant, phase, install, activate, claimed, unhandled,
                 outbox, timer, stats>>

\* a lookup whose hit is held back until the fetch has settled
SWRAfterLookup_Await(cached) ==
  IF cached # Undefined
  THEN [pc |-> "swr_bg", result |-> NoResponse]
  ELSE [pc |-> "swr_wait", result |-> NoResponse]

\* what the strategy does with the result of its lookup: a hit is returned
\* to the caller at once and the fetch is left to the background; a miss
\* makes the caller wait for the fetch
SWRAfterLookup(cached) ==
  IF cached # Undefined
  THEN [pc |-> "swr_bg", result |-> cached]
  ELSE [pc |-> "swr_wait", result |-> NoResponse]

\* storing whatever the network returned
Cacheable_Any(response) == TRUE

\* the condition under which a strategy stores a network response
Cacheable(response) == Ok(response)

\* a miss that answers a rejected fetch with the offline text
SWRMissFailure_Fallback == OfflineTextResponse

\* what the caller of a missed lookup gets when the fetch rejects
SWRMissFailure == Rejected

\* v15: the fetch started together with the lookup settles while
\* `await cachedResponsePromise` is still pending.  Nothing has a handler on
\* networkResponsePromise yet, so a rejection is reported to the worker as
\* unhandled until the continuation attaches one.
SWREarly(h, outcome) ==
  /\ SWRFetchesWithLookup(variant)
  /\ handlers[h].pc = "swr_match"
  /\ handlers[h].net = "pending"
  /\ LET s == Settled(outcome)
     IN /\ handlers' = [handlers EXCEPT ![h] =
             [@ EXCEPT !.net = s.net, !.netResp = s.resp]]
        /\ unhandled' = IF s.net = "failed"
                        THEN unhandled \cup {"networkResponsePromise"}
                        ELSE unhandled
  /\ UNCHANGED <<pageVars, variant, phase, install, activate, caches, orphans, claimed,
                 outbox, timer, stats>>

\* const cachedResponse = await cache.match(request), and what follows
\* without a further await.  When the fetch has settled already (v15), the
\* callbacks attached to it run at once: the caller of a miss gets its
\* outcome, and an ok response starts the put.
SWRMatch(h) ==
  /\ handlers[h].pc = "swr_match"
  /\ LET c == cacheMatch(Object(caches, orphans, handlers[h].cache),
                         handlers[h].request.url)
         a == SWRAfterLookup(c)
         early == handlers[h].net \in {"ok", "nonok", "failed"}
         store == /\ early
                  /\ handlers[h].net # "failed"
                  /\ Cacheable(handlers[h].netResp)
     IN handlers' = [handlers EXCEPT ![h] =
          [@ EXCEPT !.cached = c,
                    !.ownHit = (c # Undefined),
                    !.net = IF early THEN @ ELSE "pending",
                    !.put = IF store THEN "pending" ELSE @,
                    !.pc = IF ~early THEN a.pc
                           ELSE IF store THEN "bg_put" ELSE "done",
                    !.result = IF ~early \/ c # Undefined THEN a.result
                               ELSE IF handlers[h].net = "failed" THEN SWRMissFailure
                               ELSE handlers[h].netResp]]
  /\ UNCHANGED <<pageVars, variant, phase, install, activate, caches, orphans, claimed,
                 unhandled, outbox, timer, stats>>

\* after a hit, the fetch settles in the background: an ok response is put
\* into the bucket, anything else is logged
SWRBackground(h, outcome) ==
  /\ handlers[h].pc = "swr_bg"
  /\ LET s == Settled(outcome)
         store == s.net # "failed" /\ Cacheable(s.resp)
     IN handlers' = [handlers EXCEPT ![h] =
          [@ EXCEPT !.net = s.net,
                    !.netResp = s.resp,
                    !.put = IF store THEN "pending" ELSE @,
                    !.pc = IF store THEN "bg_put" ELSE "done"]]
  /\ UNCHANGED <<pageVars, variant, phase, install, activate, caches, orphans, claimed,
                 unhandled, outbox, timer, stats>>

\* after a miss, the caller's promise follows the fetch: the response is
\* returned (an ok one is also put into the bucket, not awaited), a rejection
\* is re-thrown
SWRWait(h, outcome) ==
  /\ handlers[h].pc = "swr_wait"
  /\ LET s == Settled(outcome)
         store == s.net # "failed" /\ Cacheable(s.resp)
     IN handlers' = [handlers EXCEPT ![h] =
          [@ EXCEPT !.net = s.net,
                    !.netResp = s.resp,
                    !.result = IF s.net = "failed" THEN SWRMissFailure ELSE s.resp,
                    !.put = IF store THEN "pending" ELSE @,
                    !.pc = IF store THEN "bg_put" ELSE "done"]]
  /\ UNCHANGED <<pageVars, variant, phase, install, activate, caches, orphans, claimed,
                 unhandled, outbox, timer, stats>>

\* whether a rejection of a cache.put that is not awaited has a handler:
\* v7, v9 and v15 attach .catch(log); v6 attaches nothing
PutCaught(v) == v # "v6"

\* a cache.put that the strategy did not await completes or rejects
BackgroundPut(h, ok) ==
  /\ handlers[h].pc = "bg_put"
  /\ IF ok
     THEN ObjectWrite(handlers[h].cache,
                      cachePut(Object(caches, orphans, handlers[h].cache),
                               PutKey(h), handlers[h].netResp))
     ELSE UNCHANGED <<caches, orphans>>
  /\ handlers' = [handlers EXCEPT ![h] =
       [@ EXCEPT !.put = IF ok THEN "stored" ELSE "failed", !.pc = "done"]]
  /\ unhandled' = IF ok \/ PutCaught(variant) THEN unhandled
                  ELSE unhandled \cup {handlers[h].strategy}
  /\ UNCHANGED <<pageVars, variant, phase, install, activate, claimed, outbox, timer, stats>>

(***************************************************************************)
(* The worker's message listener.                                          *)
(***************************************************************************)
\* the data of the messages posted to the worker
MessageData ==
  {[type |-> "NETWORK_STATUS", isOnline |-> b] : b \in BOOLEAN}
    \cup {[type |-> "PING"], [type |-> "CLEAR_UPDATES"]}

\* a listener that answers a status message like a ping
MessageHandling_StatusPong(v, type) ==
  CASE type = "NETWORK_STATUS"              -> "pong"
    [] v = "v15" /\ type = "CLEAR_UPDATES"  -> "clear"
    [] v = "v9"  /\ type = "PING"           -> "pong"
    [] OTHER                                -> "ignore"

\* what the message listener of revision v does with a message of the type:
\* every revision logs NETWORK_STATUS, v9 answers PING, v15 purges on
\* CLEAR_UPDATES
MessageHandling(v, type) ==
  CASE type = "NETWORK_STATUS"              -> "log"
    [] v = "v15" /\ type = "CLEAR_UPDATES"  -> "clear"
    [] v = "v9"  /\ type = "PING"           -> "pong"
    [] OTHER                                -> "ignore"

\* a client of the worker posts a message to it
ClientPost(data) ==
  /\ phase = "activated"
  /\ sent < MaxMessages
  /\ inbox' = Append(inbox, data)
  /\ sent' = sent + 1
  /\ UNCHANGED <<variant, phase, install, activate, caches, orphans, handlers, claimed,
                 unhandled, outbox, timer, stats, page, pagelog, msg>>

\* a message event: the listener up to its first await.  The v15 listener is
\* an async function that nothing awaits, so an event is dispatched while
\* the purges of earlier ones are pending.
MessageEvent ==
  /\ phase = "activated"
  /\ inbox # << >>
  /\ LET todo == MessageHandling(variant, Head(inbox).type)
     IN /\ msg' = [data |-> Head(inbox),
                   purges |-> IF todo = "clear" THEN Append(msg.purges, NewPurge)
                              ELSE msg.purges]
        /\ outbox' = IF todo = "pong" THEN Append(outbox, "PONG") ELSE outbox
  /\ inbox' = Tail(inbox)
  /\ UNCHANGED <<variant, phase, install, activate, caches, orphans, handlers, claimed,
                 unhandled, timer, stats, page, pagelog, sent>>

\* the buckets the CLEAR_UPDATES branch deletes: keys.map(key => caches.delete(key))
ClearTargets(v, cs) == BucketNames(cs)

\* the sequence without its element p: the purge has finished
Without(seq, p) == SubSeq(seq, 1, p - 1) \o SubSeq(seq, p + 1, Len(seq))

\* the purges that are suspended at the position
PurgesAt(pc) == {p \in DOMAIN msg.purges : msg.purges[p].pc = pc}

\* const keys = await caches.keys() of purge p, and the start of every
\* caches.delete(key)
ClearKeys(p) ==
  /\ p \in PurgesAt("keys")
  /\ msg' = [msg EXCEPT !.purges =
               IF ClearTargets(variant, caches) = {}
               THEN Without(@, p)
               ELSE [@ EXCEPT ![p] = [pc |-> "delete",
                                      todo |-> ClearTargets(variant, caches)]]]
  /\ UNCHANGED <<variant, phase, install, activate, caches, orphans, handlers, claimed,
                 unhandled, outbox, timer, stats, page, pagelog, inbox, sent>>

\* one caches.delete(key) of purge p completes; a bucket that another purge
\* has deleted already is not there, and the call resolves all the same
ClearDelete(p, key) ==
  /\ p \in PurgesAt("delete")
  /\ key \in msg.purges[p].todo
  /\ BucketDeleted(key)
  /\ msg' = [msg EXCEPT !.purges =
               IF msg.purges[p].todo = {key}
               THEN Without(@, p)
               ELSE [@ EXCEPT ![p].todo = @ \ {key}]]
  /\ UNCHANGED <<variant, phase, install, activate, handlers, claimed,
                 unhandled, outbox, timer, stats, page, pagelog, inbox, sent>>

\* whether the promise that the fetch listener gave to respondWith has
\* settled: the strategy has returned, whatever it left running
RespondWithSettled(hr) == hr.pc \in {"idle", "passthrough", "done", "swr_bg", "bg_put"}

\* no event is being handled: no event waits to be dispatched, and nothing
\* that was registered with an event's waitUntil or respondWith is pending.
\* The promises of install and activate have settled when the worker is
\* activated; nothing else in the scripts calls waitUntil.
WorkerIdle ==
  /\ phase = "activated"
  /\ \A h \in DOMAIN handlers : RespondWithSettled(handlers[h])
  /\ inbox = << >>

\* what a stop leaves of a strategy call: its fetch and its cache.put in the
\* background go with the global scope
StoppedHandler(hr) ==
  IF hr.pc \in {"swr_bg", "bg_put"}
  THEN [hr EXCEPT !.pc = "done",
                  !.net = IF @ = "pending" THEN "lost" ELSE @,
                  !.put = IF @ = "pending" THEN "lost" ELSE @]
  ELSE hr

\* what a stop leaves of a promise that nothing registered
Discarded(st) == IF st = "pending" THEN "lost" ELSE st

\* the browser stops the idle worker: its global scope is discarded, and with
\* it every continuation that no waitUntil or respondWith keeps alive: the
\* timer of the v15 activate listener and the run of checkForUpdates, the
\* clients.claim() of v15 and the clients.matchAll() calls of v9, the
\* background work of the strategies, the runs of the message listener with
\* their event and their purges, the caches.delete calls of the activation
\* that are still running after Promise.all rejected, and the counters v9
\* keeps on self
WorkerStopped ==
  /\ WorkerIdle
  /\ timer' = IF timer \in {"armed", "fired"} THEN "lost" ELSE timer
  /\ stats' = NoStats
  /\ activate' = [activate EXCEPT !.notify = Discarded(@), !.ready = Discarded(@),
                                  !.claim = Discarded(@), !.todo = {}]
  /\ handlers' = [h \in DOMAIN handlers |-> StoppedHandler(handlers[h])]
  /\ msg' = IdleMsg
  /\ UNCHANGED <<variant, phase, install, caches, orphans, claimed,
                 unhandled, outbox, page, pagelog, inbox, sent>>

(***************************************************************************)
(* The page script: the update banner.                                     *)
(***************************************************************************)
\* a banner revealed by every message of the worker
Reveals_Any(type) == TRUE

\* event.data && event.data.type === "UPDATE_AVAILABLE"
Reveals(type) == type = "UPDATE_AVAILABLE"

\* the page's message listener takes the next message the worker posted:
\* UPDATE_AVAILABLE sets display to flex and starts the 10 ms timer
PageMessage ==
  /\ page.doc = "live"
  /\ page.read < Len(outbox)
  /\ page' = IF Reveals(outbox[page.read + 1])
             THEN [page EXCEPT !.read = @ + 1, !.display = "flex", !.timeout = TRUE]
             ELSE [page EXCEPT !.read = @ + 1]
  /\ UNCHANGED <<variant, phase, install, activate, caches, orphans, handlers, claimed,
                 unhandled, outbox, timer, stats, pagelog, inbox, msg, sent>>

\* setTimeout(() => updateContainer.classList.add("visible"), 10)
PageTimeout ==
  /\ page.doc = "live"
  /\ page.timeout
  /\ page' = [page EXCEPT !.timeout = FALSE, !.visible = TRUE]
  /\ UNCHANGED <<variant, phase, install, activate, caches, orphans, handlers, claimed,
                 unhandled, outbox, timer, stats, pagelog, inbox, msg, sent>>

\* a click handler that reloads before it posts
ClickEffects_ReloadFirst(controller) ==
  IF controller THEN <<"reload", "CLEAR_UPDATES">> ELSE <<"reload">>

\* the click handler of #update-button: postMessage({type: "CLEAR_UPDATES"})
\* to the controller when there is one, then window.location.reload()
ClickEffects(controller) ==
  IF controller THEN <<"CLEAR_UPDATES", "reload">> ELSE <<"reload">>

\* what the effects of a click, up to the reload, post to the worker
RECURSIVE Posted(_)
Posted(effects) ==
  IF effects = << >> \/ Head(effects) = "reload" THEN << >>
  ELSE <<Head(effects)>> \o Posted(Tail(effects))

\* navigator.serviceWorker.controller of the page is this worker
Controller == claimed

\* the user clicks the button of the banner, which is rendered once the
\* banner's display is flex: the click listener posts and calls
\* window.location.reload(), and returns.  The document stays as it is until
\* the navigation commits, and takes further clicks.
PageClick ==
  /\ page.doc = "live"
  /\ page.display = "flex"
  /\ page.clicks <= MaxReclicks
  /\ pagelog' = pagelog \o ClickEffects(Controller)
  /\ inbox' = inbox \o [i \in 1..Len(Posted(ClickEffects(Controller))) |->
                          [type |-> Posted(ClickEffects(Controller))[i]]]
  /\ page' = [page EXCEPT !.clicks = @ + 1]
  /\ UNCHANGED <<variant, phase, install, activate, caches, orphans, handlers, claimed,
                 unhandled, outbox, timer, stats, msg, sent>>

\* the document that the navigation of a reload leaves behind it: the old
\* one is gone with its banner and its timer, the new one has no listener yet
Unloaded ==
  [doc |-> "loading", display |-> "none", visible |-> FALSE, timeout |-> FALSE,
   clicks |-> 0, loaded |-> 0, read |-> 0]

\* the navigation that reload() started commits
PageNavigate ==
  /\ page.doc = "live"
  /\ page.clicks > 0
  /\ page' = Unloaded
  /\ UNCHANGED <<variant, phase, install, activate, caches, orphans, handlers, claimed,
                 unhandled, outbox, timer, stats, pagelog, inbox, msg, sent>>

\* the DOMContentLoaded listener of the new document: the banner is created
\* hidden and the message listener registered; what the worker posted before
\* that is not delivered to it
DOMContentLoaded ==
  /\ page.doc = "loading"
  /\ page' = LoadedPage(Len(outbox))
  /\ UNCHANGED <<variant, phase, install, activate, caches, orphans, handlers, claimed,
                 unhandled, outbox, timer, stats, pagelog, inbox, msg, sent>>

(***************************************************************************)
(* The worker.                                                             *)
(***************************************************************************)
Next ==
  \/ InstallStart
  \/ InstallOpen
  \/ \E ok \in BOOLEAN : InstallCore(ok)
  \/ \E ok \in BOOLEAN : InstallKeys(ok)
  \/ \E i \in install.todo, outcome \in AssetOutcomes : InstallAsset(i, outcome)
  \/ \E i \in install.putting, ok \in BOOLEAN : InstallAssetPut(i, ok)
  \/ InstallSettled
  \/ ActivateStart
  \/ ClaimCompletes
  \/ ActivateNotify
  \/ \E ok \in BOOLEAN : ActivateKeys(ok)
  \/ \E key \in activate.todo, ok \in BOOLEAN : ActivateDelete(key, ok)
  \/ ActivateOpen
  \/ \E ok \in BOOLEAN : ActivateList(ok)
  \/ ActivateClaim
  \/ ActivateReady
  \/ Activated
  \/ TimerFires
  \/ checkForUpdates
  \/ \E h \in At("idle"), request \in Requests : FetchEvent(h, request)
  \/ \E h \in At("nf_fetch"), outcome \in NetOutcomes : NFSettle(h, outcome)
  \/ \E h \in At("nf_open") : NFOpen(h)
  \/ \E h \in At("nf_put"), ok \in BOOLEAN : NFPut(h, ok)
  \/ \E h \in At("nf_match") : NFMatch(h)
  \/ \E h \in At("nf_index") : NFIndex(h)
  \/ \E h \in At("swr_open") : SWROpen(h)
  \/ \E h \in At("swr_match"), outcome \in NetOutcomes : SWREarly(h, outcome)
  \/ \E h \in At("swr_match") : SWRMatch(h)
  \/ \E h \in At("swr_bg"), outcome \in NetOutcomes : SWRBackground(h, outcome)
  \/ \E h \in At("swr_wait"), outcome \in NetOutcomes : SWRWait(h, outcome)
  \/ \E h \in At("bg_put"), ok \in BOOLEAN : BackgroundPut(h, ok)
  \/ MessageEvent
  \/ \E p \in PurgesAt("keys") : ClearKeys(p)
  \/ \E p \in PurgesAt("delete") : \E key \in msg.purges[p].todo : ClearDelete(p, key)
  \/ WorkerStopped
  \/ PageMessage
  \/ PageTimeout
  \/ PageClick
  \/ PageNavigate
  \/ DOMContentLoaded

Spec == Init /\ [][Next]_vars

\* the timer of the activate listener fires when its worker is running, the
\* lifecycle goes on and the page takes the messages posted to it
LiveSpec ==
  /\ Spec
  /\ WF_vars(InstallStart) /\ WF_vars(InstallOpen)
  /\ WF_vars(\E ok \in BOOLEAN : InstallCore(ok))
  /\ WF_vars(\E ok \in BOOLEAN : InstallKeys(ok))
  /\ WF_vars(InstallSettled) /\ WF_vars(ActivateStart) /\ WF_vars(Activated)
  /\ WF_vars(ClaimCompletes)
  /\ WF_vars(TimerFires) /\ WF_vars(checkForUpdates)
  /\ WF_vars(PageMessage)

\* the handlers of two or more fetch events that are in flight together
Pair == 1..(MaxHandlers + 1)

\* the state after construction, with the handlers H of the fetch events
\* that are dispatched
StartWith(H) ==
  /\ variant \in Variants
  /\ phase = "parsed"
  /\ install = IdleInstall
  /\ activate = IdleActivate
  /\ \E k \in 0..MaxStale : caches = [i \in 1..k |-> StaleBucket(StaleNames[i])]
  /\ orphans = NoOrphans
  /\ handlers = [h \in H |-> IdleHandler]
  /\ claimed = FALSE
  /\ unhandled = {}
  /\ outbox = << >>
  /\ timer = "none"
  /\ stats = NoStats
  /\ page = LoadedPage(0)
  /\ pagelog = << >>
  /\ inbox = << >>
  /\ sent = 0
  /\ msg = IdleMsg

PairInit == StartWith(Pair)

\* the handlers of two fetch events that are in flight together
Both == 1..2

\* the next step of the strategy that handler h runs: the operation it
\* awaits settles, one way or the other
StrategyStep(h) ==
  \/ \E outcome \in NetOutcomes : NFSettle(h, outcome)
  \/ NFOpen(h)
  \/ \E ok \in BOOLEAN : NFPut(h, ok)
  \/ NFMatch(h)
  \/ NFIndex(h)
  \/ SWROpen(h)
  \/ \E outcome \in NetOutcomes : SWREarly(h, outcome)
  \/ SWRMatch(h)
  \/ \E outcome \in NetOutcomes : SWRBackground(h, outcome)
  \/ \E outcome \in NetOutcomes : SWRWait(h, outcome)
  \/ \E ok \in BOOLEAN : BackgroundPut(h, ok)

\* requests that take every path of the two strategies: a navigation to the
\* precached page, a precached and an uncached image, an API call
TermRequests ==
  { [method |-> "GET", mode |-> "navigate", destination |-> "document", url |-> "root"],
    [method |-> "GET", mode |-> "no-cors",  destination |-> "image",    url |-> "favicon"],
    [method |-> "GET", mode |-> "no-cors",  destination |-> "image",    url |-> "img"],
    [method |-> "GET", mode |-> "cors",     destination |-> "",         url |-> "apiitems"] }

\* a client of the v15 worker, the revision whose listener handles the
\* message, posts CLEAR_UPDATES to it, once
ClearOnce ==
  /\ variant = "v15"
  /\ sent = 0
  /\ ClientPost([type |-> "CLEAR_UPDATES"])

\* the worker's lifecycle, its fetch listener handling these requests in two
\* fetch events, and its message listener with one purge
TermNext ==
  \/ InstallStart
  \/ InstallOpen
  \/ \E ok \in BOOLEAN : InstallCore(ok)
  \/ \E ok \in BOOLEAN : InstallKeys(ok)
  \/ \E i \in install.todo, outcome \in AssetOutcomes : InstallAsset(i, outcome)
  \/ \E i \in install.putting, ok \in BOOLEAN : InstallAssetPut(i, ok)
  \/ InstallSettled
  \/ ActivateStart
  \/ ClaimCompletes
  \/ ActivateNotify
  \/ \E ok \in BOOLEAN : ActivateKeys(ok)
  \/ \E key \in activate.todo, ok \in BOOLEAN : ActivateDelete(key, ok)
  \/ ActivateOpen
  \/ \E ok \in BOOLEAN : ActivateList(ok)
  \/ ActivateClaim
  \/ ActivateReady
  \/ Activated
  \/ \E h \in At("idle"), request \in TermRequests : FetchEvent(h, request)
  \/ \E h \in Both : StrategyStep(h)
  \/ ClearOnce
  \/ MessageEvent
  \/ \E p \in PurgesAt("keys") : ClearKeys(p)
  \/ \E p \in PurgesAt("delete") : \E key \in msg.purges[p].todo : ClearDelete(p, key)

\* every fetch and every cache operation that a strategy has started settles
FairSpec ==
  StartWith(Both) /\ [][TermNext]_vars /\ \A h \in Both : WF_vars(StrategyStep(h))

\* requests of every class of the fetch listener: a navigation, a precached
\* and an uncached static asset, an API call and a request of no other class
ServeRequests ==
  TermRequests \cup
    { [method |-> "GET", mode |-> "cors", destination |-> "", url |-> "about"] }

\* the worker's lifecycle, its fetch listener handling these requests, its
\* message listener with one purge, and its stops
ServeNext ==
  \/ InstallStart
  \/ InstallOpen
  \/ \E ok \in BOOLEAN : InstallCore(ok)
  \/ \E ok \in BOOLEAN : InstallKeys(ok)
  \/ \E i \in install.todo, outcome \in AssetOutcomes : InstallAsset(i, outcome)
  \/ \E i \in install.putting, ok \in BOOLEAN : InstallAssetPut(i, ok)
  \/ InstallSettled
  \/ ActivateStart
  \/ ClaimCompletes
  \/ ActivateNotify
  \/ \E ok \in BOOLEAN : ActivateKeys(ok)
  \/ \E key \in activate.todo, ok \in BOOLEAN : ActivateDelete(key, ok)
  \/ ActivateOpen
  \/ \E ok \in BOOLEAN : ActivateList(ok)
  \/ ActivateClaim
  \/ ActivateReady
  \/ Activated
  \/ \E h \in At("idle"), request \in ServeRequests : FetchEvent(h, request)
  \/ \E h \in At("nf_fetch"), outcome \in NetOutcomes : NFSettle(h, outcome)
  \/ \E h \in At("nf_open") : NFOpen(h)
  \/ \E h \in At("nf_put"), ok \in BOOLEAN : NFPut(h, ok)
  \/ \E h \in At("nf_match") : NFMatch(h)
  \/ \E h \in At("nf_index") : NFIndex(h)
  \/ \E h \in At("swr_open") : SWROpen(h)
  \/ \E h \in At("swr_match"), outcome \in NetOutcomes : SWREarly(h, outcome)
  \/ \E h \in At("swr_match") : SWRMatch(h)
  \/ \E h \in At("swr_bg"), outcome \in NetOutcomes : SWRBackground(h, outcome)
  \/ \E h \in At("swr_wait"), outcome \in NetOutcomes : SWRWait(h, outcome)
  \/ \E h \in At("bg_put"), ok \in BOOLEAN : BackgroundPut(h, ok)
  \/ ClearOnce
  \/ MessageEvent
  \/ \E p \in PurgesAt("keys") : ClearKeys(p)
  \/ \E p \in PurgesAt("delete") : \E key \in msg.purges[p].todo : ClearDelete(p, key)
  \/ WorkerStopped

ServeSpec == Init /\ [][ServeNext]_vars

\* the worker's lifecycle, its fetch listener handling every request, and its
\* stops, while no message is posted to it
FetchNext ==
  \/ InstallStart
  \/ InstallOpen
  \/ \E ok \in BOOLEAN : InstallCore(ok)
  \/ \E ok \in BOOLEAN : InstallKeys(ok)
  \/ \E i \in install.todo, outcome \in AssetOutcomes : InstallAsset(i, outcome)
  \/ \E i \in install.putting, ok \in BOOLEAN : InstallAssetPut(i, ok)
  \/ InstallSettled
  \/ ActivateStart
  \/ ClaimCompletes
  \/ ActivateNotify
  \/ \E ok \in BOOLEAN : ActivateKeys(ok)
  \/ \E key \in activate.todo, ok \in BOOLEAN : ActivateDelete(key, ok)
  \/ ActivateOpen
  \/ \E ok \in BOOLEAN : ActivateList(ok)
  \/ ActivateClaim
  \/ ActivateReady
  \/ Activated
  \/ \E h \in At("idle"), request \in Requests : FetchEvent(h, request)
  \/ \E h \in At("nf_fetch"), outcome \in NetOutcomes : NFSettle(h, outcome)
  \/ \E h \in At("nf_open") : NFOpen(h)
  \/ \E h \in At("nf_put"), ok \in BOOLEAN : NFPut(h, ok)
  \/ \E h \in At("nf_match") : NFMatch(h)
  \/ \E h \in At("nf_index") : NFIndex(h)
  \/ \E h \in At("swr_open") : SWROpen(h)
  \/ \E h \in At("swr_match"), outcome \in NetOutcomes : SWREarly(h, outcome)
  \/ \E h \in At("swr_match") : SWRMatch(h)
  \/ \E h \in At("swr_bg"), outcome \in NetOutcomes : SWRBackground(h, outcome)
  \/ \E h \in At("swr_wait"), outcome \in NetOutcomes : SWRWait(h, outcome)
  \/ \E h \in At("bg_put"), ok \in BOOLEAN : BackgroundPut(h, ok)
  \/ WorkerStopped

FetchSpec == Init /\ [][FetchNext]_vars

\* the worker's lifecycle, its timer and its stops, its message listener
\* with the clients that post to it, and the page with its banner, while no
\* fetch event is dispatched
MsgNext ==
  \/ InstallStart
  \/ InstallOpen
  \/ \E ok \in BOOLEAN : InstallCore(ok)
  \/ \E ok \in BOOLEAN : InstallKeys(ok)
  \/ \E i \in install.todo, outcome \in AssetOutcomes : InstallAsset(i, outcome)
  \/ \E i \in install.putting, ok \in BOOLEAN : InstallAssetPut(i, ok)
  \/ InstallSettled
  \/ ActivateStart
  \/ ClaimCompletes
  \/ ActivateNotify
  \/ \E ok \in BOOLEAN : ActivateKeys(ok)
  \/ \E key \in activate.todo, ok \in BOOLEAN : ActivateDelete(key, ok)
  \/ ActivateOpen
  \/ \E ok \in BOOLEAN : ActivateList(ok)
  \/ ActivateClaim
  \/ ActivateReady
  \/ Activated
  \/ TimerFires
  \/ checkForUpdates
  \/ \E data \in MessageData : ClientPost(data)
  \/ MessageEvent
  \/ \E p \in PurgesAt("keys") : ClearKeys(p)
  \/ \E p \in PurgesAt("delete") : \E key \in msg.purges[p].todo : ClearDelete(p, key)
  \/ WorkerStopped
  \/ PageMessage
  \/ PageTimeout
  \/ PageClick
  \/ PageNavigate
  \/ DOMContentLoaded

MsgSpec == Init /\ [][MsgNext]_vars

\* the requests of these events: an image that no revision precaches, and
\* an API call
PairRequests ==
  { [method |-> "GET", mode |-> "no-cors", destination |-> "image", url |-> "img"],
    [method |-> "GET", mode |-> "cors",    destination |-> "",      url |-> "apiitems"] }

\* the worker's lifecycle and the fetch events of concurrent requests
PairNext ==
  \/ InstallStart
  \/ InstallOpen
  \/ \E ok \in BOOLEAN : InstallCore(ok)
  \/ \E ok \in BOOLEAN : InstallKeys(ok)
  \/ \E i \in install.todo, outcome \in AssetOutcomes : InstallAsset(i, outcome)
  \/ \E i \in install.putting, ok \in BOOLEAN : InstallAssetPut(i, ok)
  \/ InstallSettled
  \/ ActivateStart
  \/ ClaimCompletes
  \/ ActivateNotify
  \/ \E ok \in BOOLEAN : ActivateKeys(ok)
  \/ \E key \in activate.todo, ok \in BOOLEAN : ActivateDelete(key, ok)
  \/ ActivateOpen
  \/ \E ok \in BOOLEAN : ActivateList(ok)
  \/ ActivateClaim
  \/ ActivateReady
  \/ Activated
  \/ \E h \in At("idle"), request \in PairRequests : FetchEvent(h, request)
  \/ \E h \in At("nf_fetch"), outcome \in NetOutcomes : NFSettle(h, outcome)
  \/ \E h \in At("nf_open") : NFOpen(h)
  \/ \E h \in At("nf_put"), ok \in BOOLEAN : NFPut(h, ok)
  \/ \E h \in At("nf_match") : NFMatch(h)
  \/ \E h \in At("swr_open") : SWROpen(h)
  \/ \E h \in At("swr_match"), outcome \in NetOutcomes : SWREarly(h, outcome)
  \/ \E h \in At("swr_match") : SWRMatch(h)
  \/ \E h \in At("swr_bg"), outcome \in NetOutcomes : SWRBackground(h, outcome)
  \/ \E h \in At("swr_wait"), outcome \in NetOutcomes : SWRWait(h, outcome)
  \/ \E h \in At("bg_put"), ok \in BOOLEAN : BackgroundPut(h, ok)

PairSpec == PairInit /\ [][PairNext]_vars

(***************************************************************************)
(* Properties.                                                             *)
(***************************************************************************)
Dispatched(h) == handlers[h].pc # "idle"

Finished(h) == handlers[h].pc = "done"

\* the strategy call holds the Cache object it opened, and the object is the
\* bucket that the storage holds under the name: no caches.delete has
\* removed it since
InStorage(h) ==
  /\ Holds(handlers[h], handlers[h].cache)
  /\ handlers[h].cache \notin DOMAIN orphans
  /\ HasBucket(caches, handlers[h].bucket)

\* the strategy has looked the request up in the cache
LookedUp(h) ==
  \/ handlers[h].pc \in {"swr_bg", "swr_wait", "nf_index"}
  \/ handlers[h].pc \in {"bg_put", "done"} /\ handlers[h].cached # NoResponse

\* The four routing rules of the v15 fetch listener, first match first.
C1_Rule(request) ==
  IF request.mode = "navigate" THEN 1
  ELSE IF \/ request.destination \in {"style", "script", "font", "image"}
          \/ request.url \in StaticPaths
    THEN 2
  ELSE IF request.url \in ApiPaths
    THEN 3
  ELSE 4

\* C1: in the v15 worker every intercepted GET request is answered by one
\* strategy call, chosen by the first matching rule: navigation and static
\* assets by staleWhileRevalidate on the static bucket, then API paths by
\* networkFirst on the dynamic bucket, everything else by
\* staleWhileRevalidate on the dynamic bucket.
C1_RoutingV15 ==
  \A h \in Slots :
    (variant = "v15" /\ Dispatched(h) /\ handlers[h].request.method = "GET") =>
      /\ handlers[h].responded
      /\ handlers[h].strategy =
           (IF C1_Rule(handlers[h].request) = 3
            THEN "networkFirst" ELSE "staleWhileRevalidate")
      /\ handlers[h].bucket =
           (IF C1_Rule(handlers[h].request) \in {1, 2}
            THEN "static-cache-v15" ELSE "dynamic-cache-v8")

\* a navigation to an /api/ path, answered by staleWhileRevalidate on the
\* static bucket and not by networkFirst
C1_Witness ==
  /\ variant = "v15"
  /\ \E h \in Slots :
       /\ handlers[h].request.mode = "navigate"
       /\ isApiPath(handlers[h].request)
       /\ Finished(h)
       /\ handlers[h].strategy = "staleWhileRevalidate"
       /\ handlers[h].bucket = "static-cache-v15"

\* C2: for a request whose method is not GET the listener calls no
\* respondWith, no strategy and no fetch, and leaves the storage unchanged.
C2_NonGetPassThrough ==
  /\ [](\A h \in Slots :
          (Dispatched(h) /\ handlers[h].request.method # "GET") =>
            /\ handlers[h].pc = "passthrough"
            /\ ~handlers[h].responded
            /\ handlers[h].strategy = "none"
            /\ handlers[h].net = "none"
            /\ handlers[h].put = "none"
            /\ handlers[h].result = NoResponse)
  /\ [][\A h \in Slots :
          (~Dispatched(h) /\ handlers'[h].pc # "idle"
             /\ handlers'[h].request.method # "GET") => caches' = caches]_vars

C2_Witness ==
  \E h \in Slots :
    /\ handlers[h].request.method = "POST"
    /\ handlers[h].pc = "passthrough"
    /\ isApiPath(handlers[h].request)

\* C3: when the bucket holds an entry at lookup time, staleWhileRevalidate
\* hands that entry to the caller at the lookup, whatever the fetch does
\* (pending forever, rejected, or resolved).  The bucket is the Cache object
\* the call opened, also when a purge has taken it out of the storage since.
C3_HitServedAtLookup ==
  \A h \in Slots :
    (handlers[h].strategy = "staleWhileRevalidate" /\ LookedUp(h)
       /\ handlers[h].ownHit) =>
      /\ handlers[h].cached.kind = "cache"
      /\ handlers[h].result = handlers[h].cached

\* the caller has the cached entry while the fetch is still pending
C3_Witness ==
  \E h \in Slots :
    /\ handlers[h].strategy = "staleWhileRevalidate"
    /\ handlers[h].pc = "swr_bg"
    /\ handlers[h].net = "pending"
    /\ handlers[h].result.kind = "cache"

\* C4: after a miss the caller of staleWhileRevalidate gets exactly the
\* outcome of the fetch: the response when it resolved (a put of an ok one is
\* started and, when it completes, stores that response), the rejection when
\* it failed; never a cached or synthesized response.  The miss is that of
\* the Cache object the call opened, and the put is seen by a later lookup
\* when that object is still the bucket of the storage.
C4_MissFollowsNetwork ==
  /\ [](\A h \in Slots :
          (handlers[h].strategy = "staleWhileRevalidate"
             /\ handlers[h].pc \in {"bg_put", "done"}
             /\ handlers[h].cached = Undefined) =>
            /\ handlers[h].net = "ok" =>
                 /\ handlers[h].result = handlers[h].netResp
                 /\ handlers[h].result.kind = "network"
                 /\ handlers[h].put # "none"
            /\ handlers[h].net = "nonok" =>
                 /\ handlers[h].result = handlers[h].netResp
                 /\ handlers[h].put = "none"
            /\ handlers[h].net = "failed" =>
                 /\ handlers[h].result = Rejected
                 /\ handlers[h].put = "none")
  /\ [][\A h \in Slots :
          (handlers[h].strategy = "staleWhileRevalidate"
             /\ handlers[h].cached = Undefined
             /\ handlers[h].put = "pending" /\ handlers'[h].put = "stored"
             /\ InStorage(h)) =>
            BucketMatch(caches', handlers[h].bucket, handlers[h].request.url).body
              = handlers[h].netResp.body]_vars

\* a miss whose fetch rejected: the strategy has failed
C4_Witness ==
  \E h \in Slots :
    /\ handlers[h].strategy = "staleWhileRevalidate"
    /\ Finished(h)
    /\ handlers[h].cached = Undefined
    /\ handlers[h].net = "failed"
    /\ handlers[h].result = Rejected

\* C5: every entry of every bucket, and of every Cache object whose bucket
\* was deleted, has an ok status, and a response that is
\* not ok is returned to the caller as it is and starts no put.
C5_OnlyOkCached ==
  /\ \A i \in 1..Len(caches) : \A u \in DOMAIN caches[i].entries :
       caches[i].entries[u].status \in 200..299
  /\ \A c \in DOMAIN orphans : \A u \in DOMAIN orphans[c] :
       orphans[c][u].status \in 200..299
  /\ \A h \in Slots :
       (Finished(h) /\ handlers[h].net = "nonok") =>
         /\ handlers[h].put = "none"
         /\ (handlers[h].strategy = "networkFirst" \/ ~handlers[h].ownHit) =>
              /\ handlers[h].result = handlers[h].netResp
              /\ handlers[h].result.status = 404

\* a strategy has handed a 404 to its caller and the storage holds entries
C5_Witness ==
  \E h \in Slots :
    /\ Finished(h)
    /\ handlers[h].net = "nonok"
    /\ handlers[h].result.status = 404
    /\ \E i \in 1..Len(caches) : DOMAIN caches[i].entries # {}

\* C6 (as claimed): whenever the fetch of networkFirst yields an ok response,
\* the caller receives that network response, also when the put of the clone
\* fails.
C6_NetworkFirstSuccess ==
  \A h \in Slots :
    (handlers[h].strategy = "networkFirst" /\ Finished(h)
       /\ handlers[h].net = "ok") =>
      handlers[h].result = handlers[h].netResp

\* C7 (as claimed): after a failed fetch, networkFirst(request, bucket)
\* returns a cached response if and only if `bucket` holds an entry for the
\* request.
C7_FallbackScopedToBucket ==
  \A h \in Slots :
    (handlers[h].strategy = "networkFirst" /\ handlers[h].net = "failed"
       /\ LookedUp(h)) =>
      (handlers[h].cached.kind = "cache" <=> handlers[h].ownHit)

\* the strategy's lookup found nothing for the request
C8_NothingCached(h) == LookedUp(h) /\ handlers[h].cached = Undefined

\* C8 (as claimed): every intercepted GET request with an API path whose
\* fetch fails and that has no cached entry is answered by the offline JSON,
\* whatever its mode, destination or extension.
C8_OfflineApiAnyRequest ==
  \A h \in Slots :
    (handlers[h].request.method = "GET" /\ isApiPath(handlers[h].request)
       /\ Finished(h) /\ handlers[h].net = "failed" /\ C8_NothingCached(h)) =>
      handlers[h].result = OfflineApiResponse

\* C8 (amended): every intercepted GET request with an API path that the
\* listener hands to networkFirst, whose fetch fails and for which no bucket
\* holds an entry, is answered by the offline JSON with status 200 and
\* content type application/json.
C8_OfflineApiNetworkFirst ==
  \A h \in Slots :
    (handlers[h].request.method = "GET" /\ isApiPath(handlers[h].request)
       /\ handlers[h].strategy = "networkFirst"
       /\ Finished(h) /\ handlers[h].net = "failed" /\ C8_NothingCached(h)) =>
      /\ handlers[h].result.kind = "synth"
      /\ handlers[h].result.status = 200
      /\ handlers[h].result.ctype = "application/json"
      /\ handlers[h].result.body = OfflineJson

\* a navigation to an API path answered by the offline JSON (v6, v7, v9)
C8_Witness ==
  \E h \in Slots :
    /\ handlers[h].strategy = "networkFirst"
    /\ handlers[h].request.mode = "navigate"
    /\ isApiPath(handlers[h].request)
    /\ Finished(h)
    /\ handlers[h].net = "failed"
    /\ handlers[h].result = OfflineApiResponse

\* C9 (as claimed): a navigation without /api/ or /graphql in its URL,
\* handled by networkFirst while the fetch fails and the static bucket is
\* empty, is answered by the text "Resource unavailable offline", status 200.
C9_ColdStartOfflineText ==
  \A h \in Slots :
    (handlers[h].strategy = "networkFirst"
       /\ handlers[h].request.mode = "navigate"
       /\ ~isApiUrl(handlers[h].request)
       /\ Finished(h) /\ handlers[h].net = "failed"
       /\ DOMAIN Entries(caches, CACHE_NAMES(variant).static) = {}) =>
      /\ handlers[h].result.body = OfflineText
      /\ handlers[h].result.status = 200

\* C10 (as claimed): the handling of a navigation by an active worker ends
\* with a defined response, except for a staleWhileRevalidate miss whose
\* fetch fails; a navigation handled by networkFirst never resolves to
\* undefined.
C10_NavigationResolves ==
  \A h \in Slots :
    (phase = "activated" /\ handlers[h].request.method = "GET"
       /\ handlers[h].request.mode = "navigate" /\ Finished(h)) =>
      IF /\ handlers[h].strategy = "staleWhileRevalidate"
         /\ handlers[h].cached = Undefined
         /\ handlers[h].net = "failed"
      THEN handlers[h].result = Rejected
      ELSE handlers[h].result.kind \in {"network", "cache", "synth"}

\* the keys a list of relative asset names resolves to
AssetKeys(assets) == {Resolve(assets[i]) : i \in DOMAIN assets}

\* the worker has passed the installed state
PastInstall == phase \in {"installed", "activating", "activated"}

\* C11 (as claimed): in every revision a failure of cache.addAll(CORE_ASSETS)
\* rejects the promise given to waitUntil, so the worker is never installed
\* and never activates with an incomplete core set.
C11_CoreFailureAbortsInstall ==
  install.core = "failed" =>
    /\ install.pc = "rejected"
    /\ ~PastInstall

\* C12: in v6 and v7, once the core assets are cached, no outcome of the
\* additional assets rejects the install; every additional asset that was
\* fetched ok and written is an entry of the static bucket when the install
\* has resolved, and the assets that failed are not.
C12_AdditionalBestEffort ==
  (variant \in {"v6", "v7"} /\ install.core = "ok") =>
    /\ install.pc # "rejected"
    /\ phase # "redundant"
    /\ (install.todo = {} /\ install.putting = {}
          /\ phase \in {"installing", "installed"}) =>
         /\ install.pc = "resolved"
         /\ DOMAIN Entries(caches, CACHE_NAMES(variant).static) =
              AssetKeys(CORE_ASSETS(variant)) \cup
                {Resolve(ADDITIONAL_ASSETS(variant)[i]) : i \in install.stored}

\* v7 installed although the first additional asset failed, with the ones
\* after it cached
C12_Witness ==
  /\ variant = "v7"
  /\ phase = "installed"
  /\ install.failures = 1
  /\ install.stored = {2, 3, 4, 5}
  /\ "favicon" \notin DOMAIN Entries(caches, "static-cache-v7")
  /\ "appleicon" \in DOMAIN Entries(caches, "static-cache-v7")

\* C13 (as claimed): when the v15 install finds both core assets fetchable
\* and has stored them, its promise resolves, and the static bucket then
\* holds exactly the keys of "./" and "./favicon.ico".
C13_InstallExactlyCore ==
  (variant = "v15" /\ install.core = "ok") =>
    /\ install.pc \in {"keys", "resolved"}
    /\ phase \in {"installing", "installed", "activating"} =>
         DOMAIN Entries(caches, "static-cache-v15") = {"root", "favicon"}

\* C14 (as claimed): the worker begins activation only after the install-time
\* cache population has completed successfully, never while it is pending.
C14_InstallPrecedesActivation ==
  phase \in {"activating", "activated"} =>
    /\ install.pc = "resolved"
    /\ install.todo = {}
    /\ install.core = "ok"

\* C15 (as claimed): once the work of the activate handler has finished, the
\* storage holds no bucket other than the current static and dynamic ones.
C15_GenerationGC ==
  (phase = "activated" /\ activate.pc = "resolved") =>
    BucketNames(caches) \subseteq CurrentNames(variant)

\* C16 (as claimed): in every revision clients.claim() is invoked only when
\* every stale bucket has been deleted: no page is claimed while a bucket
\* that is not current exists.
C16_CleanupBeforeClaim ==
  claimed => BucketNames(caches) \subseteq CurrentNames(variant)

\* C17 (as claimed): when enumerating or deleting a stale bucket fails during
\* activation, clients.claim() is invoked all the same, so the activate event
\* ends with the pages claimed.
C17_CleanupFailureStillClaims ==
  (phase = "activated" /\ activate.failed) => claimed

\* a caches.delete of a purge completes in this step: the run of the
\* listener goes on with its event
PurgeDeletes ==
  \E p \in PurgesAt("delete") : \E key \in msg.purges[p].todo :
    /\ msg'.data = msg.data
    /\ caches' = cachesDelete(caches, key)
    /\ msg'.purges = IF msg.purges[p].todo = {key} THEN Without(msg.purges, p)
                     ELSE [msg.purges EXCEPT ![p].todo = @ \ {key}]

\* C18 (as claimed): while the v15 worker handles CLEAR_UPDATES only buckets
\* that are not current are deleted; the current static and dynamic buckets
\* and their entries stay as they are.
C18_PurgeKeepsCurrent ==
  [][(variant = "v15" /\ PurgeDeletes) =>
       \A name \in CurrentNames(variant) :
         HasBucket(caches, name) =>
           /\ HasBucket(caches', name)
           /\ Entries(caches', name) = Entries(caches, name)]_vars

\* C19 (as claimed): after every activation of the v15 worker an
\* UPDATE_AVAILABLE message is eventually posted to the pages it controls.
C19_UpdateBroadcast ==
  (variant = "v15" /\ phase = "activating") ~>
    (\E i \in 1..Len(outbox) : outbox[i] = "UPDATE_AVAILABLE")

\* the page has received UPDATE_AVAILABLE since it was loaded
UpdateReceived ==
  \E i \in (page.loaded + 1)..page.read : outbox[i] = "UPDATE_AVAILABLE"

\* C20: the banner's display is none exactly until the page receives
\* UPDATE_AVAILABLE and flex from then on until the navigation of a reload
\* takes the document away; every click on the banner's button posts
\* CLEAR_UPDATES to the worker and then calls reload, in that order, nothing
\* else in the page script posts or reloads, and the document goes only
\* after a click has called reload.
C20_PageUpdateProtocol ==
  /\ [](/\ page.display = (IF UpdateReceived THEN "flex" ELSE "none")
        /\ page.visible => page.display = "flex")
  /\ [][/\ (pagelog' # pagelog \/ (Len(inbox') > Len(inbox) /\ sent' = sent)) =>
             /\ page.display = "flex" /\ page'.display = "flex"
             /\ pagelog' = pagelog \o <<"CLEAR_UPDATES", "reload">>
             /\ inbox' = Append(inbox, [type |-> "CLEAR_UPDATES"])
             /\ page'.clicks = page.clicks + 1
        /\ (page.display = "flex" /\ page'.display = "none") =>
             /\ page.clicks > 0
             /\ pagelog' = pagelog /\ inbox' = inbox
        /\ (page.doc = "live" /\ page'.doc = "loading") => page.clicks > 0]_vars

\* the banner was shown, two clicks have each posted CLEAR_UPDATES and called
\* reload, and the page has been loaded again with its banner hidden
C20_Witness ==
  /\ pagelog = <<"CLEAR_UPDATES", "reload", "CLEAR_UPDATES", "reload">>
  /\ page.doc = "live"
  /\ page.display = "none"
  /\ page.loaded = 1
  /\ outbox = <<"UPDATE_AVAILABLE">>

\* the handler's put of the network response completes in this step
PutCompletes(h) == handlers[h].put = "pending" /\ handlers'[h].put = "stored"

\* C24 (as claimed): once networkFirst or staleWhileRevalidate has written an
\* ok response for a request into a bucket, a lookup of the request in that
\* bucket, before any later overwrite or deletion, returns the body of the
\* network response that was cloned, and the response returned to the
\* strategy's caller has that same body.
C24_RoundTrip ==
  [][\A h \in Slots :
       PutCompletes(h) =>
         /\ BucketMatch(caches', handlers[h].bucket, handlers[h].request.url).body
              = handlers[h].netResp.body
         /\ handlers'[h].result.body = handlers[h].netResp.body]_vars

\* C26 (as claimed): in every revision a GET request with mode navigate is
\* answered by networkFirst on the static bucket.
C26_NavigationNetworkFirst ==
  \A h \in Slots :
    (Dispatched(h) /\ handlers[h].request.method = "GET"
       /\ handlers[h].request.mode = "navigate") =>
      /\ handlers[h].strategy = "networkFirst"
      /\ handlers[h].bucket = CACHE_NAMES(variant).static

\* C27 (as claimed): after a hit of staleWhileRevalidate, when the fetch has
\* settled ok and the put has succeeded, the next lookup of the request in
\* the bucket returns the new network response; when the fetch settled not ok
\* or failed, no put was started.
C27_SelfHealingOnHit ==
  /\ [][\A h \in Slots :
          (handlers[h].strategy = "staleWhileRevalidate" /\ handlers[h].ownHit
             /\ PutCompletes(h)) =>
            BucketMatch(caches', handlers[h].bucket, handlers[h].request.url).body
              = handlers[h].netResp.body]_vars
  /\ [](\A h \in Slots :
          (handlers[h].strategy = "staleWhileRevalidate" /\ handlers[h].ownHit
             /\ Finished(h) /\ handlers[h].net \in {"nonok", "failed"}) =>
            handlers[h].put = "none")

\* C28 (as claimed): after a hit of staleWhileRevalidate the caller keeps the
\* cached response whatever the background fetch and put do, and a failure of
\* either is handled: no rejection is left without a handler.
C28_BackgroundFailuresContained ==
  \A h \in Slots :
    (handlers[h].strategy = "staleWhileRevalidate" /\ handlers[h].ownHit
       /\ Finished(h)) =>
      /\ handlers[h].result = handlers[h].cached
      /\ handlers[h].put = "failed" => "staleWhileRevalidate" \notin unhandled

\* C30: in the v15 worker networkFirst is called only for GET requests that
\* are neither navigations nor static assets and whose path contains /api/ or
\* /graphql; a call whose lookup finds nothing returns the offline JSON, and
\* neither the lookup of ./index.html nor the offline text is ever reached.
C30_V15NetworkFirstOnlyApi ==
  \A h \in Slots :
    (variant = "v15" /\ handlers[h].strategy = "networkFirst") =>
      /\ handlers[h].request.method = "GET"
      /\ handlers[h].request.mode # "navigate"
      /\ ~isStaticAsset(handlers[h].request)
      /\ isApiPath(handlers[h].request)
      /\ handlers[h].pc # "nf_index"
      /\ handlers[h].result # OfflineTextResponse
      /\ (Finished(h) /\ handlers[h].cached = Undefined) =>
           handlers[h].result = OfflineApiResponse

\* the v15 networkFirst found nothing after a failed fetch and answered with
\* the offline JSON
C30_Witness ==
  \E h \in Slots :
    /\ variant = "v15"
    /\ handlers[h].strategy = "networkFirst"
    /\ Finished(h)
    /\ handlers[h].net = "failed"
    /\ handlers[h].cached = Undefined
    /\ handlers[h].result = OfflineApiResponse

\* the message listener is dispatched for the message at the head of the
\* inbox in this step
Dispatches(type) ==
  /\ inbox # << >>
  /\ Head(inbox).type = type
  /\ inbox' = Tail(inbox)

\* C21 (as claimed): the v9 and the v15 worker answer every PING they receive
\* with exactly one PONG posted to the page that sent it.
C21_PingPong ==
  [][(variant \in {"v9", "v15"} /\ Dispatches("PING")) =>
       outbox' = Append(outbox, "PONG")]_vars

\* C22: a NETWORK_STATUS message, whatever its isOnline, changes nothing in
\* the worker: no bucket is created, deleted or modified, nothing is posted,
\* no purge is started, and the revision that routes later requests is the
\* same.
C22_NetworkStatusInert ==
  [][Dispatches("NETWORK_STATUS") =>
       /\ UNCHANGED <<variant, phase, install, activate, caches, orphans, handlers,
                      claimed, unhandled, outbox, timer, stats>>
       /\ msg'.purges = msg.purges
       /\ \A request \in Requests : Route(variant', request) = Route(variant, request)]_vars

\* the worker has handled NETWORK_STATUS with isOnline false while buckets
\* exist, and nothing was posted
C22_Witness ==
  /\ msg.data = [type |-> "NETWORK_STATUS", isOnline |-> FALSE]
  /\ inbox = << >>
  /\ sent = 1
  /\ caches # << >>
  /\ outbox = << >>

\* C23: a strategy keys the entry it writes by its request and stores the
\* network response as it is, so when the put of a call, awaited or not,
\* completes on a bucket that already holds for the request an entry equal to
\* the response being written (stored by an earlier or an interleaved call),
\* no entry is added or changed in any bucket, and the bucket holds that one
\* entry for the request.
C23_WriteIdempotent ==
  [][\A h \in Pair :
       (/\ PutCompletes(h)
        /\ cacheMatch(Object(caches, orphans, handlers[h].cache), handlers[h].request.url)
             = FromCache(Clone(handlers[h].netResp))) =>
         /\ caches' = caches
         /\ orphans' = orphans
         /\ cacheMatch(Object(caches', orphans', handlers[h].cache), handlers[h].request.url)
              = FromCache(Clone(handlers[h].netResp))]_vars

\* two networkFirst calls for the same request, each awaiting its put, have
\* both written the same response and the bucket holds it
C23_Witness ==
  \E h1, h2 \in Pair :
    /\ h1 # h2
    /\ NFAwaitsPut(variant)
    /\ handlers[h1].strategy = "networkFirst"
    /\ handlers[h1].request = handlers[h2].request
    /\ handlers[h1].put = "stored" /\ handlers[h2].put = "stored"
    /\ handlers[h1].netResp = handlers[h2].netResp
    /\ BucketMatch(caches, handlers[h1].bucket, handlers[h1].request.url)
         = FromCache(Clone(handlers[h1].netResp))

\* the caller of the handler is waiting for the handler's own fetch
AwaitsNetwork(h) == handlers[h].pc = "swr_wait"

\* C25 (as claimed): of two staleWhileRevalidate handlers for the same image
\* whose lookups both missed, no more than one has its caller wait for the
\* network; once both have finished with ok responses the static bucket holds
\* one entry for the request.
C25_ConcurrentMisses ==
  \A h1, h2 \in Pair :
    (/\ h1 # h2
     /\ handlers[h1].request = handlers[h2].request
     /\ handlers[h1].request.destination = "image"
     /\ handlers[h1].strategy = "staleWhileRevalidate"
     /\ handlers[h1].cached = Undefined /\ handlers[h2].cached = Undefined) =>
      /\ ~(AwaitsNetwork(h1) /\ AwaitsNetwork(h2))
      /\ (/\ Finished(h1) /\ Finished(h2)
          /\ handlers[h1].put = "stored" /\ handlers[h2].put = "stored") =>
           BucketMatch(caches, CACHE_NAMES(variant).static, handlers[h1].request.url).kind
             = "cache"

\* the strategy that handler h runs has returned a response to respondWith
\* or has failed
Returned(h) == handlers[h].result # NoResponse

\* C29: every call of networkFirst or staleWhileRevalidate eventually returns
\* a response or fails, whatever the call of another fetch event in flight,
\* the activation and a purge do meanwhile, provided that the fetches and
\* cache operations it starts settle; and no call waits on another one: as
\* long as a call has not returned, its own next step can be taken.
C29_StrategiesTerminate ==
  /\ \A h \in Both :
       (handlers[h].strategy \in {"networkFirst", "staleWhileRevalidate"}) ~> Returned(h)
  /\ [](\A h \in Both :
          (handlers[h].strategy \in {"networkFirst", "staleWhileRevalidate"}
             /\ ~Returned(h)) => ENABLED StrategyStep(h))

\* a call of staleWhileRevalidate that missed has failed with the fetch
\* error, after a purge has run, while the networkFirst call of another fetch
\* event is suspended at its fetch
C29_Witness ==
  \E h1, h2 \in Both :
    /\ handlers[h1].strategy = "staleWhileRevalidate"
    /\ handlers[h1].result = Rejected
    /\ handlers[h2].strategy = "networkFirst"
    /\ handlers[h2].pc = "nf_fetch"
    /\ msg.data.type = "CLEAR_UPDATES" /\ msg.purges = << >>

\* the fetch listener classified the request as a navigation or a static
\* asset
StaticClass(request) == request.mode = "navigate" \/ isStaticAsset(request)

\* C31: every step of the worker creates only buckets named by the current
\* static or dynamic generation and leaves the entries of every other bucket
\* as they were, so the buckets that are not current never grow; a strategy
\* writes the response of a request to the static bucket exactly when the
\* request is a navigation or a static asset, and to the dynamic bucket
\* exactly when it is an API call or anything else.
C31_OnlyCurrentWritten ==
  /\ [][caches' # caches =>
          /\ BucketNames(caches') \ BucketNames(caches) \subseteq CurrentNames(variant)
          /\ \A name \in BucketNames(caches') \ CurrentNames(variant) :
               /\ name \in BucketNames(caches)
               /\ Entries(caches', name) = Entries(caches, name)]_vars
  /\ [](\A h \in Slots :
          handlers[h].put # "none" =>
            /\ handlers[h].bucket \in CurrentNames(variant)
            /\ (handlers[h].bucket = CACHE_NAMES(variant).static)
                 <=> StaticClass(handlers[h].request)
            /\ (handlers[h].bucket = CACHE_NAMES(variant).dynamic)
                 <=> ~StaticClass(handlers[h].request))

\* a request that is neither navigation, static asset nor API call has been
\* written to the dynamic bucket, created by the write, while a bucket of an
\* earlier generation is still in the storage with the entries it had
C31_Witness ==
  \E h \in Slots :
    /\ handlers[h].put = "stored"
    /\ handlers[h].request.url = "about"
    /\ handlers[h].bucket = CACHE_NAMES(variant).dynamic
    /\ BucketMatch(caches, CACHE_NAMES(variant).dynamic, "about").body
         = handlers[h].netResp.body
    /\ HasBucket(caches, StaleNames[1])
    /\ Entries(caches, StaleNames[1]) = StaleBucket(StaleNames[1]).entries

\* C32 (as claimed): in the v15 worker, from the moment install has
\* succeeded, the current static bucket holds an entry for every core asset,
\* also after the page's click has posted CLEAR_UPDATES and reloaded.
C32_CoreAssetsStayCached ==
  (variant = "v15" /\ install.core = "ok"
     /\ phase \in {"installed", "activating", "activated"}) =>
    \A i \in 1..Len(CORE_ASSETS(variant)) :
      BucketMatch(caches, CACHE_NAMES(variant).static,
                 Resolve(CORE_ASSETS(variant)[i])) # Undefined

\* the messages of the type that the worker has posted to its pages
RECURSIVE CountOf(_, _)
CountOf(type, posts) ==
  IF posts = << >> THEN 0
  ELSE (IF Head(posts) = type THEN 1 ELSE 0) + CountOf(type, Tail(posts))

\* the document has been reloaded by a click on the banner's button: reload
\* was called and its navigation has taken the document away
Reloaded ==
  /\ \E i \in 1..Len(pagelog) : pagelog[i] = "reload"
  /\ page.clicks = 0

\* C33: the activation of the v15 worker arms one timer, which runs
\* checkForUpdates at most once, so the page is sent at most one
\* UPDATE_AVAILABLE; once the user has clicked the banner's button and the
\* document has been reloaded, the page receives no UPDATE_AVAILABLE and its
\* banner stays hidden.
C33_OneNoticePerActivation ==
  /\ [](/\ CountOf("UPDATE_AVAILABLE", outbox) <= 1
        /\ timer = "armed" => CountOf("UPDATE_AVAILABLE", outbox) = 0
        /\ Reloaded => (~UpdateReceived /\ page.display = "none"))
  /\ [][Reloaded => CountOf("UPDATE_AVAILABLE", outbox')
                      = CountOf("UPDATE_AVAILABLE", outbox)]_vars

\* the v15 worker has posted its one UPDATE_AVAILABLE, the user has clicked
\* and the page that was loaded again has read everything posted to it: its
\* banner is hidden and the timer is spent
C33_Witness ==
  /\ variant = "v15"
  /\ timer = "done"
  /\ CountOf("UPDATE_AVAILABLE", outbox) = 1
  /\ Reloaded
  /\ page.doc = "live"
  /\ page.read = Len(outbox)
  /\ page.display = "none"
  /\ msg.data.type = "CLEAR_UPDATES" /\ msg.purges = << >>

====
